---- MODULE Spec2Model ----
(***************************************************************************)
(* A model of realtime_agent.Session (src/src/realtime_agent/session.py):  *)
(* the initialize() choreography, close(), the two relay pumps and the     *)
(* waiter/handler registries, as a state machine whose steps are the       *)
(* stretches of code between two suspension points of the asyncio loop.    *)
(*                                                                         *)
(* The ports are the environment: every port operation may succeed or      *)
(* raise, the upstream emits the messages 1, 2, ... of a port in order,    *)
(* and the user emits the messages 1, 2, ... in order.                     *)
(***************************************************************************)
EXTENDS Integers, Sequences, FiniteSets, TLC

\* ------------------------------------------------------------------ bounds
\* initialize() calls made on the session
MaxCalls == 2
\* messages the upstream service emits on one port (handshake included)
MaxUpMsgs == 3
\* messages the user emits
MaxUserMsgs == 2
\* close() calls made on the session by its owner
MaxClose == 2
\* wait_for() calls made on the session
MaxWaiters == 1
\* handler records the registry holds at a time
MaxHandlers == 1
\* emit() calls made on the session
MaxEmits == 1
\* emit() calls in the specifications of the event bus alone
MaxBusEmits == 2
\* registrations whose HandlerToken the caller keeps
MaxTokens == 2
\* cancel() calls on one HandlerToken
MaxCancels == 2
\* nested calls at which the evaluation of a condition is given up with
\* RecursionError
RecursionLimit == 12

Calls == 1 .. MaxCalls
\* the port the connector returns to call i is port i
Ports == Calls
\* the task names of Session.initialize
Dirs == {"openai->user", "user->openai"}
Pumps == Calls \X Dirs
Waiters == 1 .. MaxWaiters
Emits == 1 .. MaxEmits
BusEmits == 1 .. MaxBusEmits
Events == {"tick", "update"}
Callbacks == {"f", "g"}
Priorities == {0, 1}
Keys == {"a"}
Values == {1, 2}

VARIABLES
    \* Session fields
    closed,            \* _closed
    initialized,       \* _initialized
    user_websocket,    \* _user_websocket is not None
    openai_client,     \* _openai_client: 0 is None, else the wrapped port
    transport_tasks,   \* _transport_tasks
    transport_error,   \* _transport_error
    state,             \* state: key -> value
    handlers,          \* _handlers: event -> list of handler records
    waiters,           \* _waiters: event -> list of waiters
    \* the initialize() calls: position, locals and outcome
    ipc, iclient, ihs, icontent, iqueue, ires,
    \* the upstream ports and the connector
    connect_calls, up_recv, up_sent, up_close,
    \* the user port
    user_accepts, user_sent, user_recv, user_close,
    \* the pump tasks: position, message in hand, cancellation requested
    ppc, pmsg, pcancel,
    \* the handler tokens the callers kept, in the order they were returned
    tokens,
    \* the content of the mutable object that state["nested"] refers to
    nested,
    \* the session snapshots handed to a port that keeps the objects it is sent
    snapshots,
    \* the wait_for() calls: the event waited for, the future and the outcome
    \* the caller sees
    wevent, wfut, wres,
    \* the emit() calls: position, snapshot and what was collected so far
    emits,
    \* how the last call of the mapping and event API was answered
    last_call,
    \* close() calls made by the owner
    close_calls,
    \* a Questionnaire: template, schema, fallback_prompt and _sections with
    \* their questions
    qnaire,
    \* the last call made of the questionnaire API: its name, its arguments and
    \* what it returned or raised
    qout,
    \* the agent side of a Session under construction: its config and initial
    \* state, the scaffolding create_scaffolding returned and what priming it
    \* built or raised
    agent

sessVars == <<closed, initialized, user_websocket, openai_client, transport_tasks,
              transport_error>>
busVars == <<state, handlers, waiters, wevent, wfut, wres, emits, last_call>>
initVars == <<ipc, iclient, ihs, icontent, iqueue, ires>>
upVars == <<connect_calls, up_recv, up_sent, up_close>>
userVars == <<user_accepts, user_sent, user_recv, user_close>>
pumpVars == <<ppc, pmsg, pcancel>>
qVars == <<qnaire, qout, agent>>
auxVars == <<tokens, nested, snapshots, qVars>>
vars == <<sessVars, busVars, initVars, upVars, userVars, pumpVars, close_calls, auxVars>>

\* ----------------------------------------------------- questionnaire data
DEFAULT_QUESTIONNAIRE_PROMPT ==
    "Please provide the requested information so we can personalise your experience."

SectionIds == {"1", "2"}
QuestionIds == {"q", "r"}

\* the strings given as options and answers, and an answer that is no string
Strings == {"Yes", "YES", "No", "no", "maybe"}
NonStrings == {"<int 30>"}

\* str.casefold on these strings
casefold(v) ==
    CASE v \in {"Yes", "YES"} -> "yes"
      [] v \in {"No", "no"} -> "no"
      [] OTHER -> v

\* a section without condition
NoCondition == [operator |-> "None"]

\* the conditions that refer to a section or are constant
LeafConditions ==
    [operator : {"VISIBLE", "COMPLETED"}, section_id : SectionIds]
        \cup [operator : {"ALWAYS"}, value : BOOLEAN]

\* the references to sections
RefConditions == [operator : {"VISIBLE", "COMPLETED"}, section_id : SectionIds]

\* the condition trees a section is added with, as _normalise_condition
\* leaves them (upper-case operators, lines 484-540)
Conditions ==
    LeafConditions
        \cup [operator : {"NOT"}, condition : RefConditions]
        \cup [operator : {"AND", "OR"}, conditions : RefConditions \X RefConditions]

\* ---------------------------------------------------------------- messages
None == [type |-> "None"]

\* a str: its text as a sequence of pieces; " " is a piece of whitespace and
\* <<>> the empty string
Str(text) == [type |-> "str", text |-> text]

\* a dict with string keys: its items in insertion order
Dict(items) == [type |-> "dict", items |-> items]

\* str.lstrip, str.rstrip and str.strip
RECURSIVE lstrip(_)
lstrip(text) == IF text # <<>> /\ Head(text) = " " THEN lstrip(Tail(text)) ELSE text

RECURSIVE rstrip(_)
rstrip(text) ==
    IF text # <<>> /\ text[Len(text)] = " " THEN rstrip(SubSeq(text, 1, Len(text) - 1)) ELSE text

strip(text) == rstrip(lstrip(text))

\* bool(value) of None or a str
Truthy(value) == value # None /\ ~(value.type = "str" /\ value.text = <<>>)

\* isinstance(value, str) and not value.strip()
IsBlankStr(value) == value.type = "str" /\ strip(value.text) = <<>>
\* the n-th message the upstream service emits on port p
UpMsg(p, n) == [type |-> "upstream", port |-> p, n |-> n]
\* the n-th message the user emits
UserMsg(n) == [type |-> "user", n |-> n]
\* an exception raised by operation op of the port a pump task works on
PortError(pump, op) == [type |-> "error", pump |-> pump, op |-> op]

SessionUpdate == [type |-> "session.update"]
ConversationItemCreate(content) == [type |-> "conversation.item.create", content |-> content]
ResponseCreate == [type |-> "response.create"]

\* dict(self.state): a new mapping with the same values; the nested mutable
\* value in it is the object the live state holds
ShallowCopy(d, n) == [state |-> d, nested |-> "live object"]

\* what a reader of a snapshot finds in it, the nested value of the live
\* state having content n
Contents(snapshot, n) ==
    [state |-> snapshot.state,
     nested |-> IF snapshot.nested = "live object" THEN n ELSE snapshot.nested]

\* what _render_initial_prompt / _render_questionnaire may return
Renderings == {None, [type |-> "text"]}

\* _send_initial_prompt: the content list built from the two renderings
PromptContent(message, questionnaire) ==
    (IF message # None THEN <<"system">> ELSE <<>>)
        \o (IF questionnaire # None THEN <<"questionnaire">> ELSE <<>>)

\* a prompt that asks for the response before it creates the item
ResponseBeforeItem(message, questionnaire) ==
    IF message = None /\ questionnaire = None
    THEN <<>>
    ELSE <<ResponseCreate, ConversationItemCreate(PromptContent(message, questionnaire))>>

\* _send_initial_prompt: the payloads it sends, in order
PromptPayloads(message, questionnaire) ==
    IF message = None /\ questionnaire = None
    THEN <<>>
    ELSE <<ConversationItemCreate(PromptContent(message, questionnaire)), ResponseCreate>>

\* ------------------------------------------------------------ dictionaries
\* a dict is a function whose domain is the set of its keys
EmptyDict == [k \in {} |-> <<>>]
DictSet(d, k, v) == [x \in (DOMAIN d) \cup {k} |-> IF x = k THEN v ELSE d[x]]
DictPop(d, k) == [x \in (DOMAIN d) \ {k} |-> d[x]]
\* the futures of the waiters a registry holds
RegisteredFutures(reg) == UNION {{reg[e][k].future : k \in DOMAIN reg[e]} : e \in DOMAIN reg}

\* an emit() call not made yet
IdleEmit == [pc |-> "idle", event |-> "none", handlers |-> <<>>, next |-> 0,
             results |-> <<>>, errors |-> <<>>, to_remove |-> <<>>, outcome |-> "none",
             value |-> [type |-> "none"], asked |-> {}, accepts |-> {}, resolved |-> {}]

\* ------------------------------------------------------------------- Init
Init ==
    /\ closed = FALSE
    /\ initialized = FALSE
    /\ user_websocket \in BOOLEAN
    /\ openai_client = 0
    /\ transport_tasks = {}
    /\ transport_error = None
    /\ state = EmptyDict
    /\ handlers = EmptyDict
    /\ waiters = EmptyDict
    /\ ipc = [i \in Calls |-> "idle"]
    /\ iclient = [i \in Calls |-> 0]
    /\ ihs = [i \in Calls |-> None]
    /\ icontent = [i \in Calls |-> <<>>]
    /\ iqueue = [i \in Calls |-> <<>>]
    /\ ires = [i \in Calls |-> "none"]
    /\ connect_calls = 0
    /\ up_recv = [p \in Ports |-> 0]
    /\ up_sent = [p \in Ports |-> <<>>]
    /\ up_close = [p \in Ports |-> 0]
    /\ user_accepts = 0
    /\ user_sent = <<>>
    /\ user_recv = 0
    /\ user_close = 0
    /\ ppc = [p \in Pumps |-> "none"]
    /\ pmsg = [p \in Pumps |-> None]
    /\ pcancel = [p \in Pumps |-> FALSE]
    /\ wevent = [w \in Waiters |-> "none"]
    /\ wfut = [w \in Waiters |-> "idle"]
    /\ emits = [j \in Emits \cup BusEmits |-> IdleEmit]
    /\ last_call = "none"
    /\ wres = [w \in Waiters |-> "none"]
    /\ close_calls = 0
    /\ tokens = <<>>
    /\ nested = 1
    /\ snapshots = <<>>
    /\ qnaire = [template |-> None, schema |-> None,
                 fallback_prompt |-> Str(<<DEFAULT_QUESTIONNAIRE_PROMPT>>), sections |-> <<>>]
    /\ qout = [op |-> "none"]
    /\ agent = [pc |-> "new"]

\* ---------------------------------------------------------------- close()
\* a close() without the early return of line 355
AlwaysClose == FALSE

\* Session.close, line 355: a closed session is left as it is
CloseIsNoop == closed

\* a close() that clears the waiter registry without failing the futures
FuturesLeftPending == wfut

\* Session.close, lines 363-368: every registered waiter whose future is not
\* done gets SessionClosedError
FuturesAfterClose ==
    [w \in Waiters |->
        IF w \in RegisteredFutures(waiters) /\ wfut[w] = "pending"
        THEN "SessionClosedError"
        ELSE wfut[w]]

\* Session.close with _cancel_transport_tasks and _run_async_soon. `finished`
\* are the pump tasks that end in the same step: _on_transport_task_done takes
\* them off _transport_tasks, and a cancellation requested of a task that has
\* ended is no longer pending.
close(finished) ==
    IF CloseIsNoop
    THEN /\ transport_tasks' = transport_tasks \ finished
         /\ pcancel' = [p \in Pumps |-> pcancel[p] /\ p \notin finished]
         /\ UNCHANGED <<closed, up_close, user_close, wfut, waiters, handlers>>
    ELSE /\ closed' = TRUE
         /\ transport_tasks' = {}
         /\ pcancel' = [p \in Pumps |-> (pcancel[p] \/ p \in transport_tasks) /\ p \notin finished]
         /\ up_close' = IF openai_client # 0
                        THEN [up_close EXCEPT ![openai_client] = @ + 1]
                        ELSE up_close
         /\ user_close' = IF user_websocket THEN user_close + 1 ELSE user_close
         /\ wfut' = FuturesAfterClose
         /\ waiters' = EmptyDict
         /\ handlers' = EmptyDict

\* the owner of the session calls close()
Close ==
    /\ close_calls < MaxClose
    /\ close_calls' = close_calls + 1
    /\ close({})
    /\ UNCHANGED <<initialized, user_websocket, openai_client, transport_error, state,
                   wevent, wres, emits, last_call, initVars, connect_calls, up_recv, up_sent,
                   user_accepts, user_sent, user_recv, ppc, pmsg>>
    /\ UNCHANGED auxVars

\* ----------------------------------------------------------- initialize()
\* initialize() call i ends with outcome r
Finish(i, r) ==
    /\ ipc' = [ipc EXCEPT ![i] = "done"]
    /\ ires' = [ires EXCEPT ![i] = r]

\* an initialize() without the early return of line 317
AlwaysInitialize == FALSE

\* initialize() call i is left by an exception r: its locals are gone
Raise(i, r) ==
    /\ Finish(i, r)
    /\ iclient' = [iclient EXCEPT ![i] = 0]
    /\ ihs' = [ihs EXCEPT ![i] = None]
    /\ icontent' = [icontent EXCEPT ![i] = <<>>]
    /\ iqueue' = [iqueue EXCEPT ![i] = <<>>]

\* Session.initialize, line 317
InitializeIsNoop == initialized

\* Session.initialize up to its first suspension: lines 317-323 with
\* _resolve_openai_client up to `await connector()`
Initialize(i) ==
    /\ ipc[i] = "idle"
    /\ \A j \in 1 .. i - 1 : ipc[j] # "idle"
    /\ IF InitializeIsNoop
       THEN /\ Finish(i, "ok")
            /\ UNCHANGED <<iclient, connect_calls>>
       ELSE IF ~user_websocket
       THEN /\ Finish(i, "SessionError: no user websocket")
            /\ UNCHANGED <<iclient, connect_calls>>
       ELSE IF openai_client # 0
       THEN /\ ipc' = [ipc EXCEPT ![i] = "handshake"]
            /\ iclient' = [iclient EXCEPT ![i] = openai_client]
            /\ UNCHANGED <<ires, connect_calls>>
       ELSE /\ ipc' = [ipc EXCEPT ![i] = "connect"]
            /\ connect_calls' = connect_calls + 1
            /\ UNCHANGED <<ires, iclient>>
    /\ UNCHANGED <<sessVars, busVars, ihs, icontent, iqueue, up_recv, up_sent, up_close,
                   userVars, pumpVars, close_calls>>
    /\ UNCHANGED auxVars

\* _resolve_openai_client, lines 562-567: the connector returns a port
ConnectorReturns(i) ==
    /\ ipc[i] = "connect"
    /\ openai_client' = i
    /\ iclient' = [iclient EXCEPT ![i] = i]
    /\ ipc' = [ipc EXCEPT ![i] = "handshake"]
    /\ UNCHANGED <<closed, initialized, user_websocket, transport_tasks, transport_error,
                   busVars, ihs, icontent, iqueue, ires, upVars, userVars, pumpVars, close_calls>>
    /\ UNCHANGED auxVars

\* _resolve_openai_client, lines 562-564: the connector raises, or returns
\* something that is no WebSocketPort (SessionError)
ConnectorFails(i) ==
    /\ ipc[i] = "connect"
    /\ \E r \in {"error", "SessionError: no WebSocketPort"} : Finish(i, r)
    /\ UNCHANGED <<sessVars, busVars, iclient, ihs, icontent, iqueue, upVars, userVars, pumpVars,
                   close_calls>>
    /\ UNCHANGED auxVars

\* Session.initialize, lines 325-328: the handshake arrives
HandshakeReceived(i) ==
    /\ ipc[i] = "handshake"
    /\ up_recv[iclient[i]] < MaxUpMsgs
    /\ up_recv' = [up_recv EXCEPT ![iclient[i]] = @ + 1]
    /\ ihs' = [ihs EXCEPT ![i] = UpMsg(iclient[i], up_recv[iclient[i]] + 1)]
    /\ ipc' = [ipc EXCEPT ![i] = "accept"]
    /\ UNCHANGED <<sessVars, busVars, iclient, icontent, iqueue, ires, connect_calls, up_sent,
                   up_close, userVars, pumpVars, close_calls>>
    /\ UNCHANGED auxVars

\* Session.initialize, lines 329-330: no message within receive_timeout
HandshakeTimeout(i) ==
    /\ ipc[i] = "handshake"
    /\ Raise(i, "SessionError: handshake timeout")
    /\ UNCHANGED <<sessVars, busVars, upVars, userVars, pumpVars, close_calls>>
    /\ UNCHANGED auxVars

\* Session.initialize, lines 326-328: client.receive() raises
HandshakeRaises(i) ==
    /\ ipc[i] = "handshake"
    /\ Raise(i, "error")
    /\ UNCHANGED <<sessVars, busVars, upVars, userVars, pumpVars, close_calls>>
    /\ UNCHANGED auxVars

\* Session.initialize, line 332
UserAccept(i) ==
    /\ ipc[i] = "accept"
    /\ user_accepts' = user_accepts + 1
    /\ ipc' = [ipc EXCEPT ![i] = "forward"]
    /\ UNCHANGED <<sessVars, busVars, iclient, ihs, icontent, iqueue, ires, upVars, user_sent,
                   user_recv, user_close, pumpVars, close_calls>>
    /\ UNCHANGED auxVars

\* a forward that wraps the handshake instead of passing it on
WrappedHandshake(i) == [type |-> "wrapped", payload |-> ihs[i]]

\* Session.initialize, line 333: the message handed to user_websocket.send
ForwardedHandshake(i) == ihs[i]

\* Session.initialize, lines 333-335 with _send_session_update up to its send
\* _build_session_snapshot, lines 702-708: the state (and likewise the
\* metadata) the session object of session.update carries
build_session_snapshot == ShallowCopy(state, nested)

\* client.send(payload) of _send_session_update returns: the port has the
\* payload of call i, with the content it has now
SnapshotSent(i) ==
    LET k == CHOOSE x \in DOMAIN snapshots : snapshots[x].call = i
    IN [snapshots EXCEPT ![k].sent = Contents(snapshots[k].session, nested)]

ForwardHandshake(i) ==
    /\ ipc[i] = "forward"
    /\ user_sent' = Append(user_sent, [msg |-> ForwardedHandshake(i), by |-> <<"initialize", i>>])
    /\ iqueue' = [iqueue EXCEPT ![i] = <<SessionUpdate>>]
    /\ snapshots' = Append(snapshots, [call |-> i, session |-> build_session_snapshot,
                                       sent |-> None])
    /\ ipc' = [ipc EXCEPT ![i] = "update"]
    /\ UNCHANGED <<sessVars, busVars, iclient, ihs, icontent, ires, upVars, user_accepts,
                   user_recv, user_close, pumpVars, close_calls>>
    /\ UNCHANGED <<tokens, nested, qVars>>

\* Session.initialize, lines 338-352: mark initialized, start the two pumps
Activate(i) ==
    /\ initialized' = TRUE
    /\ transport_tasks' = transport_tasks \cup ({i} \X Dirs)
    /\ ppc' = [p \in Pumps |-> IF p[1] = i THEN "receive" ELSE ppc[p]]
    /\ Finish(i, "ok")

\* _send_session_update, line 574, then _send_initial_prompt up to its first
\* send (lines 577-606); with nothing to send initialize() runs to its end
SendSessionUpdate(i) ==
    /\ ipc[i] = "update"
    /\ up_sent' = [up_sent EXCEPT ![iclient[i]] =
                      Append(@, [msg |-> Head(iqueue[i]), by |-> <<"initialize", i>>])]
    /\ \E message \in Renderings, questionnaire \in Renderings :
          LET payloads == PromptPayloads(message, questionnaire) IN
          /\ icontent' = [icontent EXCEPT ![i] = PromptContent(message, questionnaire)]
          /\ iqueue' = [iqueue EXCEPT ![i] = payloads]
          /\ IF payloads = <<>>
             THEN /\ Activate(i)
             ELSE /\ ipc' = [ipc EXCEPT ![i] = "prompt"]
                  /\ UNCHANGED <<initialized, transport_tasks, ppc, ires>>
    /\ UNCHANGED <<closed, user_websocket, openai_client, transport_error, busVars,
                   iclient, ihs, connect_calls, up_recv, up_close, userVars,
                   pmsg, pcancel, close_calls>>
    /\ snapshots' = SnapshotSent(i)
    /\ UNCHANGED <<tokens, nested, qVars>>

\* _send_initial_prompt, lines 577-578: a renderer raises SessionError after
\* session.update went out
RenderRaises(i) ==
    /\ ipc[i] = "update"
    /\ up_sent' = [up_sent EXCEPT ![iclient[i]] =
                      Append(@, [msg |-> Head(iqueue[i]), by |-> <<"initialize", i>>])]
    /\ Raise(i, "SessionError: renderer")
    /\ UNCHANGED <<sessVars, busVars, connect_calls, up_recv, up_close, userVars, pumpVars,
                   close_calls>>
    /\ snapshots' = SnapshotSent(i)
    /\ UNCHANGED <<tokens, nested, qVars>>

\* _send_initial_prompt, lines 606-608: one of its two sends completes; after
\* the second initialize() runs to its end
SendPrompt(i) ==
    /\ ipc[i] = "prompt"
    /\ up_sent' = [up_sent EXCEPT ![iclient[i]] =
                      Append(@, [msg |-> Head(iqueue[i]), by |-> <<"initialize", i>>])]
    /\ iqueue' = [iqueue EXCEPT ![i] = Tail(@)]
    /\ IF Tail(iqueue[i]) = <<>>
       THEN Activate(i)
       ELSE UNCHANGED <<initialized, transport_tasks, ppc, ipc, ires>>
    /\ UNCHANGED <<closed, user_websocket, openai_client, transport_error, busVars,
                   iclient, ihs, icontent, connect_calls, up_recv, up_close, userVars,
                   pmsg, pcancel, close_calls>>
    /\ UNCHANGED auxVars

\* Session.initialize, lines 332-336: accept() or a send() raises, and the
\* exception leaves initialize()
PortRaises(i) ==
    /\ ipc[i] \in {"accept", "forward", "update", "prompt"}
    /\ Raise(i, "error")
    /\ UNCHANGED <<sessVars, busVars, upVars, userVars, pumpVars, close_calls>>
    /\ UNCHANGED auxVars

\* ------------------------------------------------------------ relay pumps
\* a failure handler that keeps the latest error instead of the first
LatestTransportError(exc) == exc

\* _handle_transport_failure, lines 831-832: the error the session keeps
RecordedTransportError(exc) == IF transport_error = None THEN exc ELSE transport_error

\* _handle_transport_failure called by pump task p, which then returns
handle_transport_failure(exc, p) ==
    /\ transport_error' = RecordedTransportError(exc)
    /\ close({p})

\* a pump that re-encodes what it relays
ReencodedMessage(p) == [type |-> "reencoded", payload |-> pmsg[p]]

\* the message a pump hands to send(): the one receive() returned
RelayedMessage(p) == pmsg[p]

\* _relay_openai_to_user line 809, _relay_user_to_openai line 822: receive()
\* returns the next message of the port
PumpReceive(p) ==
    /\ ppc[p] = "receive"
    /\ ~pcancel[p]
    /\ IF p[2] = "openai->user"
       THEN /\ up_recv[openai_client] < MaxUpMsgs
            /\ up_recv' = [up_recv EXCEPT ![openai_client] = @ + 1]
            /\ pmsg' = [pmsg EXCEPT ![p] = UpMsg(openai_client, up_recv[openai_client] + 1)]
            /\ UNCHANGED user_recv
       ELSE /\ user_recv < MaxUserMsgs
            /\ user_recv' = user_recv + 1
            /\ pmsg' = [pmsg EXCEPT ![p] = UserMsg(user_recv + 1)]
            /\ UNCHANGED up_recv
    /\ ppc' = [ppc EXCEPT ![p] = "send"]
    /\ UNCHANGED <<sessVars, busVars, initVars, connect_calls, up_sent, up_close,
                   user_accepts, user_sent, user_close, pcancel, close_calls>>
    /\ UNCHANGED auxVars

\* _relay_openai_to_user line 810, _relay_user_to_openai line 823: send()
\* completes and the loop goes round
PumpSend(p) ==
    /\ ppc[p] = "send"
    /\ ~pcancel[p]
    /\ IF p[2] = "openai->user"
       THEN /\ user_sent' = Append(user_sent, [msg |-> RelayedMessage(p), by |-> <<"pump", p>>])
            /\ UNCHANGED up_sent
       ELSE /\ up_sent' = [up_sent EXCEPT ![openai_client] =
                              Append(@, [msg |-> RelayedMessage(p), by |-> <<"pump", p>>])]
            /\ UNCHANGED user_sent
    /\ ppc' = [ppc EXCEPT ![p] = "receive"]
    /\ pmsg' = [pmsg EXCEPT ![p] = None]
    /\ UNCHANGED <<sessVars, busVars, initVars, connect_calls, up_recv, up_close,
                   user_accepts, user_recv, user_close, pcancel, close_calls>>
    /\ UNCHANGED auxVars

\* lines 813-815 and 826-828: receive() or send() raises; the pump records the
\* failure, closes the session and returns
PumpRaises(p) ==
    /\ ppc[p] \in {"receive", "send"}
    /\ ~pcancel[p]
    /\ handle_transport_failure(PortError(p, ppc[p]), p)
    /\ ppc' = [ppc EXCEPT ![p] = "returned"]
    /\ pmsg' = [pmsg EXCEPT ![p] = None]
    /\ UNCHANGED <<initialized, user_websocket, openai_client, state, wevent, wres,
                   emits, last_call, initVars, connect_calls, up_recv, up_sent, user_accepts,
                   user_sent, user_recv, close_calls>>
    /\ UNCHANGED auxVars

\* the exception the websockets adapter re-raises from receive() when the
\* peer closed the connection gracefully (adapters/websockets.py, lines 91-94)
ConnectionClosedOK == [type |-> "error", pump |-> <<0, "none">>, op |-> "ConnectionClosedOK"]

\* _relay_openai_to_user, lines 809-815: receive() on the upstream port raises
\* ConnectionClosedOK; the pump takes it in its except BaseException branch
PumpClosedOk(p) ==
    /\ p[2] = "openai->user"
    /\ ppc[p] = "receive"
    /\ ~pcancel[p]
    /\ handle_transport_failure(ConnectionClosedOK, p)
    /\ ppc' = [ppc EXCEPT ![p] = "returned"]
    /\ UNCHANGED <<initialized, user_websocket, openai_client, state, wevent, wres,
                   emits, last_call, initVars, connect_calls, up_recv, up_sent, user_accepts,
                   user_sent, user_recv, pmsg, close_calls>>
    /\ UNCHANGED auxVars

\* a done callback that records the cancellation as a failure
CancellationRecorded ==
    IF transport_error = None
    THEN [type |-> "error", pump |-> <<0, "none">>, op |-> "CancelledError"]
    ELSE transport_error

\* _on_transport_task_done, lines 784-787: transport_error after a task that
\* ended cancelled (CancelledError is swallowed)
ErrorAfterCancelled == transport_error

\* lines 811-812 and 824-825: the cancellation requested by close() reaches
\* the pump, which re-raises it; _on_transport_task_done ignores it
PumpCancelled(p) ==
    /\ ppc[p] \in {"receive", "send"}
    /\ pcancel[p]
    /\ ppc' = [ppc EXCEPT ![p] = "cancelled"]
    /\ pmsg' = [pmsg EXCEPT ![p] = None]
    /\ transport_tasks' = transport_tasks \ {p}
    /\ pcancel' = [pcancel EXCEPT ![p] = FALSE]
    /\ transport_error' = ErrorAfterCancelled
    /\ UNCHANGED <<closed, initialized, user_websocket, openai_client,
                   busVars, initVars, upVars, userVars, close_calls>>
    /\ UNCHANGED auxVars

\* lines 813-815 and 826-828: the port operation interrupted by the
\* cancellation raises an exception of its own instead of CancelledError
PumpCancelRaises(p) ==
    /\ ppc[p] \in {"receive", "send"}
    /\ pcancel[p]
    /\ handle_transport_failure(PortError(p, "cancelled " \o ppc[p]), p)
    /\ ppc' = [ppc EXCEPT ![p] = "returned"]
    /\ pmsg' = [pmsg EXCEPT ![p] = None]
    /\ UNCHANGED <<initialized, user_websocket, openai_client, state, wevent, wres,
                   emits, last_call, initVars, connect_calls, up_recv, up_sent, user_accepts,
                   user_sent, user_recv, close_calls>>
    /\ UNCHANGED auxVars

\* --------------------------------------------------------------- event bus
\* an _ensure_open that never raises
NeverRaises == TRUE

\* _ensure_open, lines 498-500: TRUE when the call may go on
ensure_open == ~closed

transportVars == <<initialized, user_websocket, openai_client, transport_tasks,
                   transport_error, initVars, upVars, userVars, pumpVars, close_calls>>

\* the records the registry holds
HandlerCount(reg) == Cardinality({<<e, k>> \in Events \X (1 .. MaxHandlers) :
                                     e \in DOMAIN reg /\ k \in DOMAIN reg[e]})

\* a sort that puts a record before those of its own priority
InsertBeforeEqual(sorted, r) ==
    LET before == SelectSeq(sorted, LAMBDA x : x.priority > r.priority)
        after == SelectSeq(sorted, LAMBDA x : x.priority <= r.priority)
    IN before \o <<r>> \o after

\* list.sort(key=priority, reverse=True): stable, highest priority first
InsertByPriority(sorted, r) ==
    LET before == SelectSeq(sorted, LAMBDA x : x.priority >= r.priority)
        after == SelectSeq(sorted, LAMBDA x : x.priority < r.priority)
    IN before \o <<r>> \o after

RECURSIVE SortByPriority(_)
SortByPriority(records) ==
    IF records = <<>>
    THEN <<>>
    ELSE InsertByPriority(SortByPriority(SubSeq(records, 1, Len(records) - 1)),
                          records[Len(records)])

\* _register, lines 490-492: the registry after the record is added
Registered(e, record) ==
    DictSet(handlers, e,
            SortByPriority(Append(IF e \in DOMAIN handlers THEN handlers[e] ELSE <<>>,
                                  record)))

\* Session.on / Session.once through _register
Register(e, cb, once, priority) ==
    /\ HandlerCount(handlers) < MaxHandlers
    /\ IF ensure_open
       THEN /\ handlers' = Registered(e, [callback |-> cb, once |-> once, priority |-> priority])
            /\ last_call' = "ok"
       ELSE /\ last_call' = "SessionClosedError"
            /\ UNCHANGED handlers
    /\ UNCHANGED <<closed, state, waiters, wevent, wfut, wres, emits, transportVars>>
    /\ UNCHANGED auxVars

\* Session.on / Session.once whose caller keeps the HandlerToken that
\* _register returns (line 493). A token is its event, its callback and its
\* _active flag; `by` notes which of on() and once() returned it and `cancels`
\* how many times its cancel() was called.
RegisterToken(e, cb, once, priority) ==
    /\ Len(tokens) < MaxTokens
    /\ IF ensure_open
       THEN /\ handlers' = Registered(e, [callback |-> cb, once |-> once, priority |-> priority])
            /\ tokens' = Append(tokens, [event |-> e, callback |-> cb, active |-> TRUE,
                                         by |-> IF once THEN "once" ELSE "on",
                                         cancels |-> 0])
            /\ last_call' = "ok"
       ELSE /\ last_call' = "SessionClosedError"
            /\ UNCHANGED <<handlers, tokens>>
    /\ UNCHANGED <<closed, state, waiters, wevent, wfut, wres, emits, transportVars>>
    /\ UNCHANGED <<nested, snapshots, qVars>>

\* Session.off with a callback, lines 388-409: the registry it leaves
OffHandlers(reg, e, cb) ==
    IF e \notin DOMAIN reg
    THEN reg
    ELSE LET remaining == SelectSeq(reg[e], LAMBDA r : r.callback # cb)
         IN IF remaining # <<>> THEN DictSet(reg, e, remaining) ELSE DictPop(reg, e)

\* Session.off with a callback, lines 388-409: the count it returns
OffCount(reg, e, cb) ==
    IF e \notin DOMAIN reg
    THEN 0
    ELSE Len(SelectSeq(reg[e], LAMBDA r : r.callback = cb))

\* a cancel() that clears the flag whatever off() removed
AlwaysInactive(active, removed) == FALSE

\* HandlerToken.cancel, lines 180-182: the flag after off() removed `removed`
\* registrations
ActiveAfterCancel(active, removed) == IF removed # 0 THEN FALSE ELSE active

\* HandlerToken.cancel, lines 177-182
Cancel(k) ==
    LET token == tokens[k]
        removed == OffCount(handlers, token.event, token.callback)
    IN
    /\ token.cancels < MaxCancels
    /\ IF ~token.active
       THEN /\ tokens' = [tokens EXCEPT ![k].cancels = @ + 1]
            /\ UNCHANGED handlers
       ELSE /\ handlers' = OffHandlers(handlers, token.event, token.callback)
            /\ tokens' = [tokens EXCEPT ![k].cancels = @ + 1,
                                        ![k].active = ActiveAfterCancel(token.active, removed)]
    /\ UNCHANGED <<closed, state, waiters, wevent, wfut, wres, emits, last_call, transportVars>>
    /\ UNCHANGED <<nested, snapshots, qVars>>

\* Session.off(event, callback)
Off(e, cb) ==
    /\ handlers' = OffHandlers(handlers, e, cb)
    /\ last_call' = "ok"
    /\ UNCHANGED <<closed, state, waiters, wevent, wfut, wres, emits, transportVars>>
    /\ UNCHANGED auxVars

\* Session.off(event), lines 393-396
OffAll(e) ==
    /\ handlers' = IF e \in DOMAIN handlers THEN DictPop(handlers, e) ELSE handlers
    /\ last_call' = "ok"
    /\ UNCHANGED <<closed, state, waiters, wevent, wfut, wres, emits, transportVars>>
    /\ UNCHANGED auxVars

\* Session.wait_for up to its suspension, lines 463-469
WaitFor(w, e, predicate) ==
    /\ wfut[w] = "idle"
    /\ wres[w] = "none"
    /\ \A v \in 1 .. w - 1 : wfut[v] # "idle" \/ wres[v] # "none"
    /\ IF ensure_open
       THEN /\ wfut' = [wfut EXCEPT ![w] = "pending"]
            /\ wevent' = [wevent EXCEPT ![w] = e]
            /\ waiters' = DictSet(waiters, e,
                                  Append(IF e \in DOMAIN waiters THEN waiters[e] ELSE <<>>,
                                         [future |-> w, predicate |-> predicate]))
            /\ UNCHANGED wres
       ELSE /\ wres' = [wres EXCEPT ![w] = "SessionClosedError"]
            /\ UNCHANGED <<wfut, wevent, waiters>>
    /\ last_call' = IF ensure_open THEN "ok" ELSE "SessionClosedError"
    /\ UNCHANGED <<closed, state, handlers, emits, transportVars>>
    /\ UNCHANGED auxVars

\* asyncio.wait_for inside Session.wait_for, line 469: the timeout expires (or
\* the caller is cancelled) and the future is cancelled
WaitTimeout(w) ==
    /\ wfut[w] = "pending"
    /\ wfut' = [wfut EXCEPT ![w] = "cancelled"]
    /\ UNCHANGED <<closed, state, handlers, waiters, wevent, wres, emits, last_call,
                   transportVars>>
    /\ UNCHANGED auxVars

\* a wait_for that leaves its waiter behind
KeepWaiter(reg, e, future) == reg

\* _remove_waiter, lines 529-537: the registry without the waiter of a future
RemoveWaiter(reg, e, future) ==
    IF e \notin DOMAIN reg
    THEN reg
    ELSE LET remaining == SelectSeq(reg[e], LAMBDA x : x.future # future)
         IN IF remaining # <<>> THEN DictSet(reg, e, remaining) ELSE DictPop(reg, e)

\* what the caller of wait_for sees for a future that is done
WaitOutcome(f) ==
    CASE f = "cancelled" -> "TimeoutError"
      [] f = "result" -> "Event"
      [] OTHER -> f

\* Session.wait_for resumes, lines 469-473: the outcome reaches the caller and
\* the finally clause unlinks the waiter
WaitReturn(w) ==
    /\ wfut[w] \notin {"idle", "pending"}
    /\ wres[w] = "none"
    /\ wres' = [wres EXCEPT ![w] = WaitOutcome(wfut[w])]
    /\ waiters' = RemoveWaiter(waiters, wevent[w], w)
    /\ UNCHANGED <<closed, state, handlers, wevent, wfut, emits, last_call, transportVars>>
    /\ UNCHANGED auxVars

\* _notify_waiters, lines 512-527: the registry it leaves. `accepts` are the
\* futures of the waiters whose predicate returns true for the event.
WaitersAfterNotify(e, accepts) ==
    IF e \notin DOMAIN waiters
    THEN waiters
    ELSE LET to_keep == SelectSeq(waiters[e],
                                  LAMBDA x : /\ wfut[x.future] = "pending"
                                             /\ x.predicate # "None"
                                             /\ x.future \notin accepts)
         IN IF to_keep # <<>> THEN DictSet(waiters, e, to_keep) ELSE DictPop(waiters, e)

\* a notification that resolves the waiters of the event whatever their
\* predicate says
ResolveAll(e, accepts) ==
    [w \in Waiters |->
        IF /\ e \in DOMAIN waiters
           /\ \E k \in DOMAIN waiters[e] : waiters[e][k].future = w
           /\ wfut[w] = "pending"
        THEN "result"
        ELSE wfut[w]]

\* an emit that leaves the futures of its waiters as they are
Unnotified(e, accepts) == wfut

\* _notify_waiters, lines 517-523: the futures after set_result
FuturesAfterNotify(e, accepts) ==
    [w \in Waiters |->
        IF /\ e \in DOMAIN waiters
           /\ \E k \in DOMAIN waiters[e] :
                 /\ waiters[e][k].future = w
                 /\ (waiters[e][k].predicate = "None" \/ w \in accepts)
           /\ wfut[w] = "pending"
        THEN "result"
        ELSE wfut[w]]

\* _notify_waiters, lines 517-521: the waiters of the event whose predicate
\* is called, those with a predicate and a future that is not done
Predicated(e) ==
    IF e \notin DOMAIN waiters
    THEN {}
    ELSE {waiters[e][k].future :
             k \in {n \in DOMAIN waiters[e] : /\ waiters[e][n].predicate # "None"
                                              /\ wfut[waiters[e][n].future] = "pending"}}

\* _notify_waiters, line 523: the futures that get the Event of this emit
ResolvedByNotify(e, accepts) ==
    {w \in Waiters : wfut[w] = "pending" /\ FuturesAfterNotify(e, accepts)[w] = "result"}

\* an emit() that returns its results whatever failed
AlwaysOk(errors) == "ok"

\* Session.emit, lines 445-450: raise the aggregate or return
Outcome(errors) == IF errors # <<>> THEN "ExceptionGroup" ELSE "ok"

\* Session.emit, lines 445-450 (and _ensure_open): what the caller of emit()
\* gets, the list of results or the exception with what it carries
EmitValue(outcome, results, errors) ==
    CASE outcome = "ok" -> [type |-> "return", results |-> results]
      [] outcome = "ExceptionGroup" -> [type |-> "ExceptionGroup", exceptions |-> errors]
      [] OTHER -> [type |-> outcome]

\* emit() call j ends: what is left of it is the Event it created (event,
\* results), what it returned or raised, and which waiters it resolved
\* (`asked`: those whose predicate it called, `accepts`: those whose predicate
\* returned true)
EmitDone(em, outcome, asked, accepts, resolved) ==
    [em EXCEPT !.pc = "done", !.outcome = outcome, !.handlers = <<>>, !.next = 0,
               !.to_remove = <<>>, !.value = EmitValue(outcome, em.results, em.errors),
               !.asked = asked, !.accepts = accepts, !.resolved = resolved]

\* Session.emit up to its first suspension, lines 415-428: the closed check,
\* the snapshot, and with no handler the notification of the waiters; with
\* handlers the first one is started
EmitStart(j, e) ==
    /\ emits[j].pc = "idle"
    /\ \A i \in 1 .. j - 1 : emits[i].pc # "idle"
    /\ IF ~ensure_open
       THEN /\ emits' = [emits EXCEPT ![j] = EmitDone([emits[j] EXCEPT !.event = e],
                                                      "SessionClosedError", {}, {}, {})]
            /\ last_call' = "SessionClosedError"
            /\ UNCHANGED <<waiters, wfut>>
       ELSE IF e \notin DOMAIN handlers
       THEN /\ last_call' = "ok"
            /\ \E accepts \in SUBSET Predicated(e) :
                  /\ emits' = [emits EXCEPT ![j] = EmitDone([emits[j] EXCEPT !.event = e], "ok",
                                                            Predicated(e), accepts,
                                                            ResolvedByNotify(e, accepts))]
                  /\ waiters' = WaitersAfterNotify(e, accepts)
                  /\ wfut' = FuturesAfterNotify(e, accepts)
       ELSE /\ emits' = [emits EXCEPT ![j] = [@ EXCEPT !.pc = "dispatch", !.event = e,
                                                        !.handlers = handlers[e],
                                                        !.next = 1]]
            /\ last_call' = "ok"
            /\ UNCHANGED <<waiters, wfut>>
    /\ UNCHANGED <<closed, state, handlers, wevent, wres, transportVars>>
    /\ UNCHANGED auxVars

\* Session.emit, lines 438-439: off() for every callback of to_remove
RECURSIVE OffEach(_, _, _)
OffEach(reg, e, callbacks) ==
    IF callbacks = <<>>
    THEN reg
    ELSE OffEach(OffHandlers(reg, e, Head(callbacks)), e, Tail(callbacks))

\* a dispatch loop that close() cuts short
UntilClosed(em) == ~closed /\ em.next < Len(em.handlers)

\* Session.emit, line 426: `for record in handlers` has a next record in the
\* list taken at line 416
MoreHandlers(em) == em.next < Len(em.handlers)

\* Session.emit, lines 428-450: the running handler returns or raises; the
\* next one is started, or after the last one the once handlers are removed,
\* the waiters notified and the call ends
HandlerEnds(j, raised) ==
    LET em == emits[j]
        record == em.handlers[em.next]
        results == IF raised THEN em.results ELSE Append(em.results, record.callback)
        errors == IF raised
                  THEN Append(em.errors, [event |-> em.event, callback |-> record.callback,
                                          original |-> <<"raised by", record.callback>>])
                  ELSE em.errors
        to_remove == IF record.once THEN Append(em.to_remove, record.callback)
                     ELSE em.to_remove
        collected == [em EXCEPT !.results = results, !.errors = errors,
                                !.to_remove = to_remove]
    IN
    /\ em.pc = "dispatch"
    /\ IF MoreHandlers(em)
       THEN /\ emits' = [emits EXCEPT ![j] = [collected EXCEPT !.next = em.next + 1]]
            /\ UNCHANGED <<handlers, waiters, wfut, last_call>>
       ELSE /\ handlers' = OffEach(handlers, em.event, to_remove)
            /\ UNCHANGED last_call
            /\ \E accepts \in SUBSET Predicated(em.event) :
                  /\ emits' = [emits EXCEPT ![j] =
                                  EmitDone(collected, Outcome(errors), Predicated(em.event),
                                           accepts, ResolvedByNotify(em.event, accepts))]
                  /\ waiters' = WaitersAfterNotify(em.event, accepts)
                  /\ wfut' = FuturesAfterNotify(em.event, accepts)
    /\ UNCHANGED <<closed, state, wevent, wres, transportVars>>
    /\ UNCHANGED auxVars

\* ------------------------------------------------------- the state mapping
DictMerge(d, m) == [x \in (DOMAIN d) \cup (DOMAIN m) |-> IF x \in DOMAIN m THEN m[x] ELSE d[x]]

\* the mappings update() is called with
UpdateArgs == UNION {[K -> Values] : K \in SUBSET Keys}

\* Session.__setitem__, lines 270-273
SetItem(k, v) ==
    /\ IF ensure_open
       THEN /\ state' = DictSet(state, k, v)
            /\ last_call' = "ok"
       ELSE /\ last_call' = "SessionClosedError"
            /\ UNCHANGED state
    /\ UNCHANGED <<closed, handlers, waiters, wevent, wfut, wres, emits, transportVars>>
    /\ UNCHANGED auxVars

\* the owner of the session changes the nested mutable value its state holds,
\* session.state["nested"]["n"] = v or session["nested"]["n"] = v: no method
\* of the session other than __getitem__ (lines 267-268) is involved
SetNested(v) ==
    /\ v # nested
    /\ nested' = v
    /\ UNCHANGED <<closed, state, handlers, waiters, wevent, wfut, wres, emits, last_call,
                   transportVars>>
    /\ UNCHANGED <<tokens, snapshots, qVars>>

\* Session.__delitem__, lines 275-278
DelItem(k) ==
    /\ IF ~ensure_open
       THEN /\ last_call' = "SessionClosedError"
            /\ UNCHANGED state
       ELSE IF k \notin DOMAIN state
       THEN /\ last_call' = "KeyError"
            /\ UNCHANGED state
       ELSE /\ state' = DictPop(state, k)
            /\ last_call' = "ok"
    /\ UNCHANGED <<closed, handlers, waiters, wevent, wfut, wres, emits, transportVars>>
    /\ UNCHANGED auxVars

\* Session.setdefault, lines 283-287
SetDefault(k, v) ==
    /\ IF ensure_open
       THEN /\ state' = IF k \in DOMAIN state THEN state ELSE DictSet(state, k, v)
            /\ last_call' = "ok"
       ELSE /\ last_call' = "SessionClosedError"
            /\ UNCHANGED state
    /\ UNCHANGED <<closed, handlers, waiters, wevent, wfut, wres, emits, transportVars>>
    /\ UNCHANGED auxVars

\* Session.update, lines 289-295
Update(m) ==
    /\ IF ensure_open
       THEN /\ state' = DictMerge(state, m)
            /\ last_call' = "ok"
       ELSE /\ last_call' = "SessionClosedError"
            /\ UNCHANGED state
    /\ UNCHANGED <<closed, handlers, waiters, wevent, wfut, wres, emits, transportVars>>
    /\ UNCHANGED auxVars

\* ----------------------------------------------------------- specification
\* no other initialize() call is suspended
NoCallInFlight == \A j \in Calls : ipc[j] \in {"idle", "done"}

Next ==
    \/ Close
    \/ \E i \in Calls : NoCallInFlight /\ Initialize(i)
    \/ \E i \in Calls : ConnectorReturns(i)
    \/ \E i \in Calls : ConnectorFails(i)
    \/ \E i \in Calls : HandshakeReceived(i)
    \/ \E i \in Calls : HandshakeTimeout(i)
    \/ \E i \in Calls : HandshakeRaises(i)
    \/ \E i \in Calls : UserAccept(i)
    \/ \E i \in Calls : ForwardHandshake(i)
    \/ \E i \in Calls : SendSessionUpdate(i)
    \/ \E i \in Calls : RenderRaises(i)
    \/ \E i \in Calls : SendPrompt(i)
    \/ \E i \in Calls : PortRaises(i)
    \/ \E p \in Pumps : PumpReceive(p)
    \/ \E p \in Pumps : PumpSend(p)
    \/ \E p \in Pumps : PumpRaises(p)
    \/ \E p \in Pumps : PumpCancelled(p)
    \/ \E p \in Pumps : PumpCancelRaises(p)

Spec == Init /\ [][Next]_vars

\* the session with its transport and the bus calls close() acts on, with
\* peers that stay silent after the handshake (the pumps wait in receive()
\* until it raises or they are cancelled); a failed initialize() is not called
\* again
NoFailedCall == \A j \in Calls : ires[j] \in {"none", "ok"}

NextClose ==
    \/ Close
    \/ \E i \in Calls : NoCallInFlight /\ NoFailedCall /\ Initialize(i)
    \/ \E i \in Calls : ConnectorReturns(i)
    \/ \E i \in Calls : ConnectorFails(i)
    \/ \E i \in Calls : HandshakeReceived(i)
    \/ \E i \in Calls : HandshakeTimeout(i)
    \/ \E i \in Calls : HandshakeRaises(i)
    \/ \E i \in Calls : UserAccept(i)
    \/ \E i \in Calls : ForwardHandshake(i)
    \/ \E i \in Calls : SendSessionUpdate(i)
    \/ \E i \in Calls : RenderRaises(i)
    \/ \E i \in Calls : SendPrompt(i)
    \/ \E i \in Calls : PortRaises(i)
    \/ \E p \in Pumps : PumpRaises(p)
    \/ \E p \in Pumps : PumpCancelled(p)
    \/ \E p \in Pumps : PumpCancelRaises(p)
    \/ Register("tick", "f", FALSE, 0)
    \/ \E w \in Waiters : WaitFor(w, "tick", "None")
    \/ \E w \in Waiters : WaitTimeout(w)
    \/ \E w \in Waiters : WaitReturn(w)

SpecClose == Init /\ [][NextClose]_vars

\* the transport of a session whose upstream may close gracefully during the
\* relay; a failed initialize() is not called again and ports raise nothing
\* else
NextEnd ==
    \/ Close
    \/ \E i \in Calls : NoCallInFlight /\ NoFailedCall /\ Initialize(i)
    \/ \E i \in Calls : ConnectorReturns(i)
    \/ \E i \in Calls : HandshakeReceived(i)
    \/ \E i \in Calls : UserAccept(i)
    \/ \E i \in Calls : ForwardHandshake(i)
    \/ \E i \in Calls : SendSessionUpdate(i)
    \/ \E i \in Calls : SendPrompt(i)
    \/ \E p \in Pumps : PumpReceive(p)
    \/ \E p \in Pumps : PumpSend(p)
    \/ \E p \in Pumps : PumpClosedOk(p)
    \/ \E p \in Pumps : PumpCancelled(p)

SpecEnd == Init /\ [][NextEnd]_vars

\* the mapping and event API of a session without a user port, and close();
\* the handlers return normally
InitApi == Init /\ ~user_websocket

NextApi ==
    \/ Close
    \/ \E once \in BOOLEAN : Register("tick", "f", once, 0)
    \/ \E w \in Waiters, predicate \in {"None", "predicate"} : WaitFor(w, "tick", predicate)
    \/ \E w \in Waiters : WaitTimeout(w)
    \/ \E w \in Waiters : WaitReturn(w)
    \/ \E j \in Emits : EmitStart(j, "tick")
    \/ \E j \in Emits : HandlerEnds(j, FALSE)
    \/ \E v \in Values : SetItem("a", v)
    \/ DelItem("a")
    \/ \E v \in Values : SetDefault("a", v)
    \/ \E m \in UpdateArgs : Update(m)

SpecApi == InitApi /\ [][NextApi]_vars

\* no emit() call is between its first and its last handler
NoEmitInFlight == \A j \in DOMAIN emits : emits[j].pc # "dispatch"

\* the event bus alone: handlers of one event registered with kept tokens at
\* any time, emit() calls made one after the other whose handlers return or
\* raise
NextEmit ==
    \/ \E cb \in Callbacks, once \in BOOLEAN, priority \in Priorities :
          RegisterToken("tick", cb, once, priority)
    \/ \E j \in BusEmits : NoEmitInFlight /\ EmitStart(j, "tick")
    \/ \E j \in BusEmits, raised \in BOOLEAN : HandlerEnds(j, raised)

SpecEmit == InitApi /\ [][NextEmit]_vars

\* registrations on one event, then emit() calls of it made one after the
\* other on the open session
NextFire ==
    \/ \E cb \in Callbacks, once \in BOOLEAN, priority \in Priorities :
          /\ \A j \in DOMAIN emits : emits[j].pc = "idle"
          /\ RegisterToken("tick", cb, once, priority)
    \/ \E j \in BusEmits : NoEmitInFlight /\ EmitStart(j, "tick")
    \/ \E j \in BusEmits, raised \in BOOLEAN : HandlerEnds(j, raised)

SpecFire == InitApi /\ [][NextFire]_vars

\* the event bus with waiters: wait_for() calls for one event with and
\* without predicate that return or time out, and emits of two events made
\* one after the other, with a handler that returns
NextWait ==
    \/ Register("tick", "f", FALSE, 0)
    \/ \E w \in Waiters, predicate \in {"None", "predicate"} : WaitFor(w, "tick", predicate)
    \/ \E w \in Waiters : WaitTimeout(w)
    \/ \E w \in Waiters : WaitReturn(w)
    \/ \E j \in BusEmits, e \in Events : NoEmitInFlight /\ EmitStart(j, e)
    \/ \E j \in BusEmits : HandlerEnds(j, FALSE)

SpecWait == InitApi /\ [][NextWait]_vars

\* the two registries under everything that removes from them: off(), once
\* handlers, emits that notify, wait_for() calls that return or time out, and
\* close()
NextPrune ==
    \/ Close
    \/ \E once \in BOOLEAN : Register("tick", "f", once, 0)
    \/ Off("tick", "f")
    \/ OffAll("tick")
    \/ \E w \in Waiters, predicate \in {"None", "predicate"} : WaitFor(w, "tick", predicate)
    \/ \E w \in Waiters : WaitTimeout(w)
    \/ \E w \in Waiters : WaitReturn(w)
    \/ \E j \in Emits : EmitStart(j, "tick")
    \/ \E j \in Emits : HandlerEnds(j, FALSE)

SpecPrune == InitApi /\ [][NextPrune]_vars

\* handlers registered with kept tokens, the tokens cancelled, and emits made
\* one after the other, on the open session
NextToken ==
    \/ \E cb \in Callbacks, once \in BOOLEAN : RegisterToken("tick", cb, once, 0)
    \/ \E k \in DOMAIN tokens : Cancel(k)
    \/ \E j \in BusEmits : NoEmitInFlight /\ EmitStart(j, "tick")
    \/ \E j \in BusEmits : HandlerEnds(j, FALSE)

SpecToken == InitApi /\ [][NextToken]_vars

\* initialize() on a session whose state holds flat values and one nested
\* mutable value, with an owner that changes both at any time
NextSnapshot ==
    \/ \E i \in Calls : NoCallInFlight /\ NoFailedCall /\ Initialize(i)
    \/ \E i \in Calls : ConnectorReturns(i)
    \/ \E i \in Calls : HandshakeReceived(i)
    \/ \E i \in Calls : UserAccept(i)
    \/ \E i \in Calls : ForwardHandshake(i)
    \/ \E i \in Calls : SendSessionUpdate(i)
    \/ \E i \in Calls : SendPrompt(i)
    \/ \E k \in Keys, v \in Values : SetItem(k, v)
    \/ \E v \in Values : SetNested(v)

InitSnapshot == Init /\ user_websocket = TRUE

SpecSnapshot == InitSnapshot /\ [][NextSnapshot]_vars

\* ------------------------------------------------------- the questionnaire
\* everything of the session, which no questionnaire call touches
transportSide == <<sessVars, busVars, initVars, upVars, userVars, pumpVars, close_calls,
                   tokens, nested, snapshots>>
sessionSide == <<transportSide, agent>>

Range(seq) == {seq[k] : k \in DOMAIN seq}

\* the position of the section with this id in _sections, 0 if there is none
SectionIndex(sections, section_id) ==
    IF \E k \in DOMAIN sections : sections[k].section_id = section_id
    THEN CHOOSE k \in DOMAIN sections : sections[k].section_id = section_id
    ELSE 0

\* the position of the question with this id in _questions, 0 if there is none
QuestionIndex(questions, question_id) ==
    IF \E k \in DOMAIN questions : questions[k].question_id = question_id
    THEN CHOOSE k \in DOMAIN questions : questions[k].question_id = question_id
    ELSE 0

\* the fields of the dataclass QuestionnaireQuestion that its constructor takes
QuestionFields == {"question_id", "question_text", "question_type", "question_options",
                   "skippable", "value", "skipped"}

\* the keyword parameters of Questionnaire.add_question besides section_id
AddQuestionParams == {"question_id", "question_text", "question_type", "question_options",
                      "skippable"}

\* the option lists questions are created with
OptionLists == {<<>>, <<"Yes", "No">>, <<"Yes", "YES">>}

\* the keyword arguments questions are created with: the fields, and
\* spelling_sensitive besides
QuestionKwargs ==
    [question_id : QuestionIds, question_options : OptionLists, skippable : BOOLEAN]
        \cup [question_id : QuestionIds, question_options : OptionLists, skippable : BOOLEAN,
              skipped : BOOLEAN]
        \cup [question_id : QuestionIds, question_options : OptionLists, skippable : BOOLEAN,
              spelling_sensitive : BOOLEAN]

\* __post_init__, lines 55-97, and the generated __init__: what constructing a
\* question with these keyword arguments raises
QuestionRaises(kwargs, params) ==
    IF ~(DOMAIN kwargs \subseteq params)
    THEN "TypeError"
    ELSE IF \E a, b \in DOMAIN kwargs.question_options :
               a < b /\ casefold(kwargs.question_options[a]) = casefold(kwargs.question_options[b])
    THEN "ValueError"
    ELSE IF "skipped" \in DOMAIN kwargs /\ kwargs.skipped /\ ~kwargs.skippable
    THEN "ValueError"
    ELSE "none"

\* the question the constructor returns
NewQuestion(kwargs) ==
    [question_id |-> kwargs.question_id,
     question_options |-> kwargs.question_options,
     skippable |-> kwargs.skippable,
     value |-> "None",
     skipped |-> IF "skipped" \in DOMAIN kwargs THEN kwargs.skipped ELSE FALSE]

\* QuestionnaireSection.add_question, lines 173-182, on section k
SectionWithQuestion(k, question) ==
    [qnaire EXCEPT !.sections[k].questions = Append(@, question)]

\* Questionnaire.add_question, lines 284-304
AddQuestion(section_id, kwargs) ==
    LET k == SectionIndex(qnaire.sections, section_id)
        raised == IF ~(DOMAIN kwargs \subseteq AddQuestionParams) THEN "TypeError"
                  ELSE IF k = 0 THEN "ValueError"
                  ELSE IF QuestionRaises(kwargs, QuestionFields) # "none"
                  THEN QuestionRaises(kwargs, QuestionFields)
                  ELSE IF QuestionIndex(qnaire.sections[k].questions, kwargs.question_id) # 0
                  THEN "ValueError"
                  ELSE "none"
    IN
    /\ qnaire' = IF raised = "none" THEN SectionWithQuestion(k, NewQuestion(kwargs)) ELSE qnaire
    /\ qout' = [op |-> "add_question", section_id |-> section_id, kwargs |-> kwargs,
                raised |-> raised]
    /\ UNCHANGED sessionSide

\* QuestionnaireQuestion(**kwargs), lines 42-97, then add_question(question)
\* of the section with this id, lines 173-182
SectionAddQuestion(section_id, kwargs) ==
    LET k == SectionIndex(qnaire.sections, section_id)
        raised == IF QuestionRaises(kwargs, QuestionFields) # "none"
                  THEN QuestionRaises(kwargs, QuestionFields)
                  ELSE IF QuestionIndex(qnaire.sections[k].questions, kwargs.question_id) # 0
                  THEN "ValueError"
                  ELSE "none"
    IN
    /\ k # 0
    /\ qnaire' = IF raised = "none" THEN SectionWithQuestion(k, NewQuestion(kwargs)) ELSE qnaire
    /\ qout' = [op |-> "QuestionnaireQuestion", section_id |-> section_id, kwargs |-> kwargs,
                raised |-> raised]
    /\ UNCHANGED sessionSide

\* a set_value that stores the answer as it was given
AsGiven(question, v) == v

\* set_value, lines 100-105: the option the answer stands for
Canonical(question, v) ==
    IF /\ question.question_options # <<>>
       /\ v \in Strings
       /\ \E o \in Range(question.question_options) : casefold(o) = casefold(v)
    THEN CHOOSE o \in Range(question.question_options) : casefold(o) = casefold(v)
    ELSE v

\* set_value, lines 99-112
set_value(question, v) ==
    IF /\ question.question_options # <<>>
       /\ Canonical(question, v) \notin Range(question.question_options)
    THEN [raised |-> "ValueError", question |-> question]
    ELSE [raised |-> "none",
          question |-> [question EXCEPT !.value = Canonical(question, v), !.skipped = FALSE]]

\* clear_value, lines 114-116
clear_value(question) ==
    [raised |-> "none", question |-> [question EXCEPT !.value = "None", !.skipped = FALSE]]

\* a question that can be skipped whatever its flag
AlwaysSkippable(question) == TRUE

\* skip, line 119
CanSkip(question) == question.skippable

\* a skip that keeps the answer
SkipKeepingValue(question) ==
    IF ~CanSkip(question)
    THEN [raised |-> "ValueError", question |-> question]
    ELSE [raised |-> "none", question |-> [question EXCEPT !.skipped = TRUE]]

\* skip, lines 118-122
skip(question) ==
    IF ~CanSkip(question)
    THEN [raised |-> "ValueError", question |-> question]
    ELSE [raised |-> "none", question |-> [question EXCEPT !.value = "None", !.skipped = TRUE]]

\* unskip, lines 124-125
unskip(question) ==
    [raised |-> "none", question |-> [question EXCEPT !.skipped = FALSE]]

\* the method of the question that a call of the questionnaire ends in
Method(op, question, v) ==
    CASE op = "set_answer" -> set_value(question, v)
      [] op = "clear_question" -> clear_value(question)
      [] op = "skip_question" -> skip(question)
      [] op = "unskip_question" -> unskip(question)

\* Questionnaire.set_answer / clear_question / skip_question / unskip_question,
\* lines 306-325, for the question id "<section_id>.<question_id>": get()
\* raises ValueError for a section or question that does not exist
QuestionCall(op, section_id, question_id, v) ==
    LET k == SectionIndex(qnaire.sections, section_id)
        n == IF k = 0 THEN 0 ELSE QuestionIndex(qnaire.sections[k].questions, question_id)
        done == Method(op, qnaire.sections[k].questions[n], v)
    IN
    /\ qnaire' = IF n = 0 THEN qnaire
                 ELSE [qnaire EXCEPT !.sections[k].questions[n] = done.question]
    /\ qout' = [op |-> op, section_id |-> section_id, question_id |-> question_id,
                value |-> v, raised |-> IF n = 0 THEN "ValueError" ELSE done.raised]
    /\ UNCHANGED sessionSide

SetAnswer(section_id, question_id, v) == QuestionCall("set_answer", section_id, question_id, v)
ClearQuestion(section_id, question_id) ==
    QuestionCall("clear_question", section_id, question_id, "None")
SkipQuestion(section_id, question_id) ==
    QuestionCall("skip_question", section_id, question_id, "None")
UnskipQuestion(section_id, question_id) ==
    QuestionCall("unskip_question", section_id, question_id, "None")

\* Questionnaire.add_section, lines 263-282
AddSection(section_id, condition) ==
    LET raised == IF SectionIndex(qnaire.sections, section_id) # 0 THEN "ValueError" ELSE "none"
    IN
    /\ qnaire' = IF raised = "none"
                 THEN [qnaire EXCEPT !.sections =
                          Append(@, [section_id |-> section_id, condition |-> condition,
                                     questions |-> <<>>])]
                 ELSE qnaire
    /\ qout' = [op |-> "add_section", section_id |-> section_id, raised |-> raised]
    /\ UNCHANGED sessionSide

\* ---------------------------------------------------- get_visible_sections
\* is_completed, lines 195-200: the loop over _questions from the k-th on
RECURSIVE Scan(_, _)
Scan(questions, k) ==
    IF k > Len(questions) THEN TRUE
    ELSE IF questions[k].skipped THEN Scan(questions, k + 1)
    ELSE IF questions[k].value = "None" THEN FALSE
    ELSE Scan(questions, k + 1)

\* a section that counts as completed when nothing in it is left unanswered,
\* questions or not
NothingUnanswered(section) == Scan(section.questions, 1)

\* QuestionnaireSection.is_completed, lines 192-200
is_completed(section) ==
    IF section.questions = <<>> THEN FALSE ELSE Scan(section.questions, 1)

\* is_completed() of the section with this id
IsCompleted(section_id) ==
    LET k == SectionIndex(qnaire.sections, section_id)
    IN
    /\ k # 0
    /\ qout' = [op |-> "is_completed", section_id |-> section_id, raised |-> "none",
                result |-> is_completed(qnaire.sections[k])]
    /\ UNCHANGED <<qnaire, sessionSide>>

\* a resolver that never finds a section in progress
NeverInProgress(section_id, evaluation_stack) == FALSE

\* resolve, line 334: the section is being evaluated further up
InProgress(section_id, evaluation_stack) == section_id \in evaluation_stack

\* what an evaluation hands back: its value, the visibility cache it leaves
\* and the exception that ended it, if one did
Returned(value, cache) == [value |-> value, cache |-> cache, raised |-> "none"]

\* an evaluation that takes a failed lookup for false
Swallowed(exception, cache) == [value |-> FALSE, cache |-> cache, raised |-> "none"]

Raised(exception, cache) == [value |-> FALSE, cache |-> cache, raised |-> exception]

\* an AND that is satisfied by any of its conditions
AnyOf(operator, evaluated) == \E k \in DOMAIN evaluated : evaluated[k]

\* _evaluate_condition, lines 447-449: the value of an AND or OR node
Combined(operator, evaluated) ==
    IF evaluated = <<>> THEN FALSE
    ELSE IF operator = "AND" THEN \A k \in DOMAIN evaluated : evaluated[k]
    ELSE \E k \in DOMAIN evaluated : evaluated[k]

\* Python gives up a call nested deeper than its recursion limit
TooDeep(depth) == depth > RecursionLimit

RECURSIVE resolve(_, _, _, _, _)
RECURSIVE evaluate_condition(_, _, _, _, _)
RECURSIVE evaluate_each(_, _, _, _, _)

\* resolve, lines 331-349, within one get_visible_sections call
resolve(sections, section_id, cache, evaluation_stack, depth) ==
    IF TooDeep(depth) THEN Raised("RecursionError", cache)
    ELSE IF section_id \in DOMAIN cache THEN Returned(cache[section_id], cache)
    ELSE IF InProgress(section_id, evaluation_stack) THEN Returned(FALSE, cache)
    ELSE LET condition == sections[SectionIndex(sections, section_id)].condition
             r == IF condition = NoCondition
                  THEN Returned(TRUE, cache)
                  ELSE evaluate_condition(sections, condition, cache,
                                          evaluation_stack \cup {section_id}, depth + 1)
         IN IF r.raised # "none"
            THEN r
            ELSE Returned(r.value, DictSet(r.cache, section_id, r.value))

\* the list comprehension of lines 443-446: the conditions from position k on,
\* evaluated in order; the value is the list of their values
evaluate_each(sections, conditions, k, cache, stack_depth) ==
    IF k > Len(conditions)
    THEN [value |-> <<>>, cache |-> cache, raised |-> "none"]
    ELSE LET r == evaluate_condition(sections, conditions[k], cache, stack_depth[1],
                                     stack_depth[2])
         IN IF r.raised # "none"
            THEN [value |-> <<>>, cache |-> r.cache, raised |-> r.raised]
            ELSE LET rest == evaluate_each(sections, conditions, k + 1, r.cache, stack_depth)
                 IN [rest EXCEPT !.value = <<r.value>> \o @]

\* _evaluate_condition, lines 427-482
evaluate_condition(sections, condition, cache, evaluation_stack, depth) ==
    IF TooDeep(depth) THEN Raised("RecursionError", cache)
    ELSE CASE condition.operator \in {"AND", "OR"} ->
                 LET r == evaluate_each(sections, condition.conditions, 1, cache,
                                        <<evaluation_stack, depth + 1>>)
                     evaluated == r.value
                 IN IF r.raised # "none" THEN Raised(r.raised, r.cache)
                    ELSE Returned(Combined(condition.operator, evaluated), r.cache)
           [] condition.operator = "NOT" ->
                 LET r == evaluate_condition(sections, condition.condition, cache,
                                             evaluation_stack, depth + 1)
                 IN IF r.raised # "none" THEN r ELSE Returned(~r.value, r.cache)
           [] condition.operator = "VISIBLE" ->
                 IF SectionIndex(sections, condition.section_id) = 0
                 THEN Raised("ValueError", cache)
                 ELSE resolve(sections, condition.section_id, cache, evaluation_stack,
                              depth + 1)
           [] condition.operator = "COMPLETED" ->
                 IF SectionIndex(sections, condition.section_id) = 0
                 THEN Raised("ValueError", cache)
                 ELSE Returned(is_completed(sections[SectionIndex(sections,
                                                                 condition.section_id)]),
                               cache)
           [] condition.operator = "ALWAYS" -> Returned(condition.value, cache)

\* the loop of lines 351-355 from section k on: the ids of the sections that
\* resolve to true, in the order of _sections
RECURSIVE VisibleFrom(_, _, _)
VisibleFrom(sections, k, cache) ==
    IF k > Len(sections)
    THEN [value |-> <<>>, raised |-> "none"]
    ELSE LET r == resolve(sections, sections[k].section_id, cache, {}, 1)
         IN IF r.raised # "none"
            THEN [value |-> <<>>, raised |-> r.raised]
            ELSE LET rest == VisibleFrom(sections, k + 1, r.cache)
                 IN IF r.value
                    THEN [rest EXCEPT !.value = <<sections[k].section_id>> \o @]
                    ELSE rest

\* Questionnaire.get_visible_sections, lines 327-356
get_visible_sections(sections) == VisibleFrom(sections, 1, EmptyDict)

GetVisibleSections ==
    /\ qout' = [op |-> "get_visible_sections",
                visible |-> get_visible_sections(qnaire.sections).value,
                raised |-> get_visible_sections(qnaire.sections).raised]
    /\ UNCHANGED <<qnaire, sessionSide>>

\* ------------------------------------------------------------------ render
\* the states a questionnaire is rendered for
States == {EmptyDict, [agent_name |-> "Support"],
           [agent_name |-> "Support", branch_name |-> "HQ"]}

\* _snapshot_state(state).get(key, default)
Get(state_snapshot, key, default) == IF key \in DOMAIN state_snapshot THEN state_snapshot[key] ELSE default

\* what a piece of a Jinja template renders to: an expression gives the value
\* it names, nothing when the state has none and no default is given; a
\* comment gives nothing; text stays
Expand(piece, state_snapshot) ==
    CASE piece = "{{ state.agent_name }}" ->
            IF "agent_name" \in DOMAIN state_snapshot THEN <<state_snapshot["agent_name"]>> ELSE <<>>
      [] piece = "{{ state.branch_name }}" ->
            IF "branch_name" \in DOMAIN state_snapshot THEN <<state_snapshot["branch_name"]>> ELSE <<>>
      [] piece = "{{ state.agent_name | default(\"Agent\") }}" ->
            <<Get(state_snapshot, "agent_name", "Agent")>>
      [] piece = "{{ state.branch_name | default(\"our office\") }}" ->
            <<Get(state_snapshot, "branch_name", "our office")>>
      [] piece = "{# note #}" -> <<>>
      [] OTHER -> <<piece>>

\* Template(text).render(state=state)
RECURSIVE Template_render(_, _)
Template_render(text, state_snapshot) ==
    IF text = <<>> THEN <<>>
    ELSE Expand(Head(text), state_snapshot) \o Template_render(Tail(text), state_snapshot)

\* the keys of the dicts serialised, in sorted order
SortedKeys == <<"a", "b", "sections", "title">>

\* the items with the k-th sorted key and the later ones
RECURSIVE ItemsFrom(_, _)
ItemsFrom(items, k) ==
    IF k > Len(SortedKeys) THEN <<>>
    ELSE SelectSeq(items, LAMBDA item : item[1] = SortedKeys[k]) \o ItemsFrom(items, k + 1)

\* json.dumps(payload, sort_keys=True): the items by sorted key
RECURSIVE Written(_)
Written(items) ==
    IF items = <<>> THEN <<>>
    ELSE <<Head(items)[1], ":">> \o Head(items)[2]
            \o (IF Len(items) > 1 THEN <<",">> ELSE <<>>) \o Written(Tail(items))

dumps(payload) == <<"{">> \o Written(ItemsFrom(payload.items, 1)) \o <<"}">>

\* [section.to_mapping() for section in self._sections], lines 207-215, as it
\* is written out: of each mapping the section id
RECURSIVE SectionMappings(_)
SectionMappings(sections) ==
    IF sections = <<>> THEN <<>>
    ELSE <<"{", "section_id", ":", Head(sections).section_id, "}">>
            \o SectionMappings(Tail(sections))

\* _questionnaire_payload, lines 396-405
questionnaire_payload(questionnaire) ==
    IF questionnaire.schema # None THEN questionnaire.schema
    ELSE IF questionnaire.sections # <<>>
    THEN Dict(<< <<"sections", <<"[">> \o SectionMappings(questionnaire.sections) \o <<"]">> >> >>)
    ELSE None

\* a render that takes only a template that is not blank for a template
NotBlank(template) == template.type = "str" /\ strip(template.text) # <<>>

\* render, line 365: isinstance(self.template, str)
IsTemplate(template) == template.type = "str"

\* render, lines 358-394
render(questionnaire, state_snapshot) ==
    LET payload == questionnaire_payload(questionnaire)
        rendered == strip(Template_render(questionnaire.template.text, state_snapshot))
        prompt == strip(questionnaire.fallback_prompt.text)
    IN IF IsTemplate(questionnaire.template)
       THEN IF strip(questionnaire.template.text) = <<>> THEN None
            ELSE IF rendered = <<>> THEN None ELSE Str(rendered)
       ELSE IF payload # None THEN Str(dumps(payload))
       ELSE IF prompt = <<>> THEN None
       ELSE Str(prompt \o <<" Agent: ", Get(state_snapshot, "agent_name", "our team"),
                            ", Branch: ", Get(state_snapshot, "branch_name", "our branch"), ".">>)

\* Questionnaire.__post_init__, lines 241-257: what the constructor raises
QuestionnaireRaises(template, schema, fallback_prompt) ==
    IF schema.type = "str" THEN "TypeError" ELSE "none"

\* the templates, schemas and fallback prompts questionnaires are made with
Templates == {None, Str(<<>>), Str(<<" ", " ">>), Str(<<"{# note #}", " ">>),
              Str(<<" ", "Hello ", "{{ state.agent_name }}", " ">>)}
Schemas == {None, Dict(<< <<"b", <<"2">> >>, <<"a", <<"1">> >> >>), Str(<<"not-a-schema">>)}
Prompts == {Str(<<DEFAULT_QUESTIONNAIRE_PROMPT>>), Str(<<" ">>)}

\* Questionnaire(template=, schema=, fallback_prompt=)
NewQuestionnaire(template, schema, fallback_prompt) ==
    LET raised == QuestionnaireRaises(template, schema, fallback_prompt)
    IN
    /\ qnaire' = IF raised = "none"
                 THEN [template |-> template, schema |-> schema,
                       fallback_prompt |-> fallback_prompt, sections |-> <<>>]
                 ELSE qnaire
    /\ qout' = [op |-> "Questionnaire", raised |-> raised]
    /\ UNCHANGED sessionSide

\* Questionnaire.render(state)
Render(state_snapshot) ==
    /\ qout' = [op |-> "render", state |-> state_snapshot, raised |-> "none",
                result |-> render(qnaire, state_snapshot)]
    /\ UNCHANGED <<qnaire, sessionSide>>

\* --------------------------------------------------- the agent scaffolding
\* scaffolding.py, lines 30-33
DEFAULT_QUESTIONNAIRE_TEMPLATE ==
    <<"Say 'Hello, this is ", "{{ state.agent_name | default(\"Agent\") }}", " from ",
      "{{ state.branch_name | default(\"our office\") }}", ", how can I help you today?'">>

\* the values of config["agent"]: absent keys read as None
AgentConfigs ==
    [type : {"questionnaire", "other"},
     initial_message_template : {None, Str(<<>>), Str(<<" ">>),
                                 Str(<<"Hello ", "{{ state.agent_name }}">>)},
     questionnaire_template : {None, Str(<<" ">>),
                               Str(<<"Questionnaire for ", "{{ state.branch_name }}">>)},
     questionnaire : {None, Str(<<"Tell us about ", "{{ state.agent_name }}">>),
                      Dict(<< <<"title", <<"Intake">> >> >>)}]

\* QuestionnaireAgentScaffolding(template=, questionnaire_template=,
\* questionnaire_schema=), lines 49-59
QuestionnaireAgentScaffolding(template, questionnaire_template, questionnaire_schema) ==
    [template |-> template,
     questionnaire_template |-> questionnaire_template,
     questionnaire_schema |-> questionnaire_schema,
     built_questionnaire |-> None,
     built_state_snapshot |-> None]

\* the initial message template of a scaffolding of type "questionnaire", lines
\* 173-185: the configured one, or the default of the dataclass
TemplateOrDefault(template) ==
    IF template # None THEN template ELSE Str(DEFAULT_QUESTIONNAIRE_TEMPLATE)

\* create_scaffolding, lines 141-195, for config["agent"]
create_scaffolding(agent_config) ==
    LET given == IF IsBlankStr(agent_config.questionnaire_template) THEN None
                 ELSE agent_config.questionnaire_template
        swap == agent_config.questionnaire.type = "str" /\ ~Truthy(given)
        questionnaire_template == IF swap THEN agent_config.questionnaire ELSE given
        questionnaire_schema == IF swap THEN None ELSE agent_config.questionnaire
        template == IF IsBlankStr(agent_config.initial_message_template) THEN None
                    ELSE agent_config.initial_message_template
    IN IF agent_config.type = "questionnaire"
       THEN QuestionnaireAgentScaffolding(TemplateOrDefault(template), questionnaire_template,
                                          questionnaire_schema)
       ELSE IF template # None
       THEN QuestionnaireAgentScaffolding(template, questionnaire_template,
                                          questionnaire_schema)
       ELSE None

\* _generate_questionnaire, lines 118-124: the Questionnaire is constructed
\* and rendered
generate_questionnaire(scaffolding, state_snapshot) ==
    LET raised == QuestionnaireRaises(scaffolding.questionnaire_template,
                                      scaffolding.questionnaire_schema,
                                      Str(<<DEFAULT_QUESTIONNAIRE_PROMPT>>))
    IN [raised |-> raised,
        value |-> IF raised # "none" THEN None
                  ELSE render([template |-> scaffolding.questionnaire_template,
                               schema |-> scaffolding.questionnaire_schema,
                               fallback_prompt |-> Str(<<DEFAULT_QUESTIONNAIRE_PROMPT>>),
                               sections |-> <<>>],
                              state_snapshot)]

\* a MappingProxyType over the dict the owner holds: _snapshot_state, lines
\* 111-116, returns it as it is, so what it shows follows that dict
LiveView == [type |-> "view"]

\* what a reader of the snapshot finds in it now
Seen(state_snapshot) == IF state_snapshot = LiveView THEN agent.state ELSE state_snapshot

\* the scaffolding after it generated a questionnaire for the state
Built(scaffolding, state_snapshot) ==
    [scaffolding EXCEPT
        !.built_questionnaire = generate_questionnaire(scaffolding, Seen(state_snapshot)).value,
        !.built_state_snapshot = state_snapshot]

\* render_questionnaire(state), lines 73-93, for a state that is not None:
\* the cached questionnaire when it was built for an equal state
render_questionnaire(scaffolding, state_snapshot) ==
    IF scaffolding.built_state_snapshot # None
          /\ Seen(scaffolding.built_state_snapshot) = Seen(state_snapshot)
    THEN [raised |-> "none", value |-> scaffolding.built_questionnaire,
          scaffolding |-> scaffolding]
    ELSE [raised |-> generate_questionnaire(scaffolding, Seen(state_snapshot)).raised,
          value |-> generate_questionnaire(scaffolding, Seen(state_snapshot)).value,
          scaffolding |->
              IF generate_questionnaire(scaffolding, Seen(state_snapshot)).raised = "none"
              THEN Built(scaffolding, state_snapshot) ELSE scaffolding]

\* what the owner passes as state: its dict, or a MappingProxyType over it
Given == {"dict", "MappingProxyType"}

\* _snapshot_state, lines 111-116: a MappingProxyType over a copy of a dict,
\* and a MappingProxyType itself
snapshot_state(given) == IF given = "MappingProxyType" THEN LiveView ELSE agent.state

\* scaffolding.build_questionnaire(state), lines 64-71, called by the owner
BuildQuestionnaire(given) ==
    /\ agent.pc = "constructed"
    /\ agent.scaffolding # None
    /\ agent' = [agent EXCEPT !.scaffolding = Built(@, snapshot_state(given))]
    /\ qout' = [op |-> "build_questionnaire", given |-> given, state |-> agent.state,
                raised |-> "none",
                result |-> generate_questionnaire(agent.scaffolding, agent.state).value]
    /\ UNCHANGED <<transportSide, qnaire>>

\* scaffolding.render_questionnaire(state), lines 73-93, called by the owner
RenderQuestionnaire(given) ==
    LET r == render_questionnaire(agent.scaffolding, snapshot_state(given))
    IN
    /\ agent.pc = "constructed"
    /\ agent.scaffolding # None
    /\ agent' = [agent EXCEPT !.scaffolding = r.scaffolding]
    /\ qout' = [op |-> "render_questionnaire", given |-> given, state |-> agent.state,
                raised |-> r.raised, result |-> r.value]
    /\ UNCHANGED <<transportSide, qnaire>>

\* Session(config=, init_state=), lines 236-254: create_scaffolding, then
\* _prime_agent_scaffolding, lines 660-673, which turns what build_questionnaire
\* raises into SessionError
NewSession(agent_config, init_state) ==
    LET scaffolding == create_scaffolding(agent_config)
        raised == IF scaffolding = None THEN "none"
                  ELSE IF generate_questionnaire(scaffolding, init_state).raised # "none"
                  THEN "SessionError"
                  ELSE "none"
    IN
    /\ agent.pc = "new"
    /\ agent' = [pc |-> IF raised = "none" THEN "constructed" ELSE "failed",
                 config |-> agent_config,
                 state |-> init_state,
                 scaffolding |-> IF scaffolding = None \/ raised # "none" THEN scaffolding
                                 ELSE Built(scaffolding, init_state),
                 raised |-> raised]
    /\ qout' = [op |-> "Session", raised |-> raised]
    /\ UNCHANGED <<transportSide, qnaire>>

\* the owner replaces the state of the session
SetState(state_snapshot) ==
    /\ agent.pc = "constructed"
    /\ agent.state # state_snapshot
    /\ agent' = [agent EXCEPT !.state = state_snapshot]
    /\ qout' = [op |-> "state", raised |-> "none"]
    /\ UNCHANGED <<transportSide, qnaire>>

\* _render_initial_prompt, lines 610-631
render_initial_prompt(scaffolding, state_snapshot) ==
    IF scaffolding = None THEN None
    ELSE IF strip(scaffolding.template.text) = <<>> THEN None
    ELSE IF strip(Template_render(scaffolding.template.text, state_snapshot)) = <<>> THEN None
    ELSE Str(Template_render(scaffolding.template.text, state_snapshot))

\* _render_questionnaire, lines 633-658
render_session_questionnaire(scaffolding, state_snapshot) ==
    LET rendered == render_questionnaire(scaffolding, state_snapshot)
    IN IF scaffolding = None THEN [raised |-> "none", value |-> None]
       ELSE IF rendered.raised # "none" THEN [raised |-> rendered.raised, value |-> None]
       ELSE IF rendered.value = None THEN [raised |-> "none", value |-> None]
       ELSE IF strip(rendered.value.text) = <<>> THEN [raised |-> "none", value |-> None]
       ELSE [raised |-> "none", value |-> Str(strip(rendered.value.text))]

\* _send_initial_prompt, lines 583-596: the content list
InputTexts(message, questionnaire) ==
    (IF message # None
     THEN <<[type |-> "input_text", text |-> <<"<system>">> \o message.text \o <<"</system>">>]>>
     ELSE <<>>)
        \o (IF questionnaire # None
            THEN <<[type |-> "input_text",
                    text |-> <<"<questionnaire>">> \o questionnaire.text
                                \o <<"</questionnaire>">>]>>
            ELSE <<>>)

\* _send_initial_prompt, lines 576-608, of initialize(): the content of the
\* conversation item it sends, empty when it sends nothing
SendInitialPrompt ==
    LET message == render_initial_prompt(agent.scaffolding, agent.state)
        questionnaire == render_session_questionnaire(agent.scaffolding, agent.state)
    IN
    /\ agent.pc = "constructed"
    /\ agent' = IF agent.scaffolding = None THEN agent
                ELSE [agent EXCEPT !.scaffolding =
                         render_questionnaire(agent.scaffolding, agent.state).scaffolding]
    /\ qout' = [op |-> "_send_initial_prompt", raised |-> questionnaire.raised,
                content |-> IF questionnaire.raised # "none" THEN <<>>
                            ELSE InputTexts(message, questionnaire.value)]
    /\ UNCHANGED <<transportSide, qnaire>>

\* ------------------------------------- specifications of the questionnaire
\* a questionnaire built section by section under distinct ids, each section
\* with one open question at most, answered, and asked for its visible
\* sections at any time
NextVisible ==
    \/ \E section_id \in SectionIds, condition \in Conditions \cup {NoCondition} :
          /\ SectionIndex(qnaire.sections, section_id) = 0
          /\ AddSection(section_id, condition)
    \/ \E section_id \in SectionIds :
          AddQuestion(section_id, [question_id |-> "q", question_options |-> <<>>,
                                   skippable |-> TRUE])
    \/ \E section_id \in SectionIds : SetAnswer(section_id, "q", "Yes")
    \/ GetVisibleSections

SpecVisible == InitApi /\ [][NextVisible]_vars

\* the answers given in the specification of the questions
Answers == {"YES", "no", "maybe", "<int 30>"}

\* the question "q" is created directly and the question "r", with the options
\* Yes and No, through the questionnaire
Direct == {kwargs \in QuestionKwargs : kwargs.question_id = "q"}
Through == {kwargs \in QuestionKwargs :
               kwargs.question_id = "r" /\ kwargs.question_options = <<"Yes", "No">>}

\* one section and its questions: created directly or through the
\* questionnaire, answered, cleared, skipped and unskipped
NextQuestion ==
    \/ /\ qnaire.sections = <<>>
       /\ AddSection("1", NoCondition)
    \/ \E kwargs \in Direct : SectionAddQuestion("1", kwargs)
    \/ \E kwargs \in Through : AddQuestion("1", kwargs)
    \/ \E question_id \in QuestionIds, v \in Answers : SetAnswer("1", question_id, v)
    \/ \E question_id \in QuestionIds : ClearQuestion("1", question_id)
    \/ \E question_id \in QuestionIds : SkipQuestion("1", question_id)
    \/ \E question_id \in QuestionIds : UnskipQuestion("1", question_id)
    \/ IsCompleted("1")

SpecQuestion == InitApi /\ [][NextQuestion]_vars

\* questionnaires made with and without template, schema and sections, and
\* rendered
NextRender ==
    \/ \E template \in Templates, schema \in Schemas, fallback_prompt \in Prompts :
          NewQuestionnaire(template, schema, fallback_prompt)
    \/ /\ qnaire.sections = <<>>
       /\ AddSection("1", NoCondition)
    \/ \E state_snapshot \in States : Render(state_snapshot)

SpecRender == InitApi /\ [][NextRender]_vars

\* sessions constructed from a config, and the initial prompt of initialize()
NextPrompt ==
    \/ \E agent_config \in AgentConfigs, init_state \in States :
          NewSession(agent_config, init_state)
    \/ \E state_snapshot \in States : SetState(state_snapshot)
    \/ SendInitialPrompt

SpecPrompt == InitApi /\ [][NextPrompt]_vars

\* a scaffolding whose owner changes its state between build_questionnaire
\* and render_questionnaire calls
NextCache ==
    \/ \E agent_config \in AgentConfigs, init_state \in States :
          NewSession(agent_config, init_state)
    \/ \E state_snapshot \in States : SetState(state_snapshot)
    \/ \E given \in Given : BuildQuestionnaire(given)
    \/ \E given \in Given : RenderQuestionnaire(given)

SpecCache == InitApi /\ [][NextCache]_vars

\* initialize() calls of one session with a user port made while earlier
\* calls are suspended (asyncio.gather of two calls): nothing but line 317
\* keeps a call from starting, and every await of lines 319-336 lets another
\* call run
NextOverlap ==
    \/ \E i \in Calls : Initialize(i)
    \/ \E i \in Calls : ConnectorReturns(i)
    \/ \E i \in Calls : HandshakeReceived(i)
    \/ \E i \in Calls : UserAccept(i)
    \/ \E i \in Calls : ForwardHandshake(i)
    \/ \E i \in Calls : SendSessionUpdate(i)
    \/ \E i \in Calls : SendPrompt(i)

SpecOverlap == InitSnapshot /\ [][NextOverlap]_vars

\* the event bus with emits that overlap: an emit started with emit_nowait()
\* or by another task runs up to its first await (lines 414-430) while an
\* earlier emit is suspended awaiting a handler
NextRace ==
    \/ \E cb \in Callbacks, once \in BOOLEAN : RegisterToken("tick", cb, once, 0)
    \/ \E j \in BusEmits : EmitStart(j, "tick")
    \/ \E j \in BusEmits, raised \in BOOLEAN : HandlerEnds(j, raised)

SpecRace == InitApi /\ [][NextRace]_vars

\* the event bus with waiters and handlers that fail: on() and once()
\* registrations, wait_for() calls with and without predicate, and emits
\* made one after the other whose handlers return or raise
NextNotify ==
    \/ \E cb \in Callbacks, once \in BOOLEAN :
          NoEmitInFlight /\ RegisterToken("tick", cb, once, 0)
    \/ \E w \in Waiters, predicate \in {"None", "predicate"} : WaitFor(w, "tick", predicate)
    \/ \E w \in Waiters : WaitReturn(w)
    \/ \E j \in Emits : NoEmitInFlight /\ EmitStart(j, "tick")
    \/ \E j \in Emits, raised \in BOOLEAN : HandlerEnds(j, raised)

SpecNotify == InitApi /\ [][NextNotify]_vars

\* the event bus under close(): registrations, emits made one after the
\* other, and close() called at any moment, also while an emit is suspended
\* awaiting a handler
NextShutdown ==
    \/ Close
    \/ \E cb \in Callbacks, once \in BOOLEAN : RegisterToken("tick", cb, once, 0)
    \/ \E j \in BusEmits : NoEmitInFlight /\ EmitStart(j, "tick")
    \/ \E j \in BusEmits : HandlerEnds(j, FALSE)

SpecShutdown == InitApi /\ [][NextShutdown]_vars

\* ------------------------------------------------------------- properties
Msgs(entries) == [k \in 1 .. Len(entries) |-> entries[k].msg]
IsPrefix(a, b) == Len(a) <= Len(b) /\ a = SubSeq(b, 1, Len(a))
SentByInitialize(entry, i) == entry.by[1] = "initialize" /\ entry.by[2] = i
SentByPump(entry, p) == entry.by[1] = "pump" /\ entry.by[2] = p

\* what initialize() call i has sent to its upstream port, in order
InitSends(i) ==
    IF iclient[i] = 0
    THEN <<>>
    ELSE Msgs(SelectSeq(up_sent[iclient[i]], LAMBDA x : SentByInitialize(x, i)))

\* call i has not been left by an exception
NotRaised(i) == ires[i] \in {"none", "ok"}

\* what call i has to send once its prompt content is known
ExpectedSends(i) ==
    <<SessionUpdate>> \o (IF icontent[i] = <<>>
                          THEN <<>>
                          ELSE <<ConversationItemCreate(icontent[i]), ResponseCreate>>)

\* call i reached the end of initialize() and started its pumps
PumpsStarted(i) == \A d \in Dirs : ppc[<<i, d>>] # "none"

\* C1: an initialize() call sends to the upstream port, in this order,
\* session.update and then either nothing more (empty content list) or
\* conversation.item.create carrying the non-empty content list followed by
\* response.create; at no moment has it sent anything but a prefix of that
\* sequence, and when its pumps start it has sent all of it.
C1_InitializeSendOrder ==
    \A i \in Calls :
        /\ IsPrefix(InitSends(i), ExpectedSends(i))
        /\ PumpsStarted(i) => InitSends(i) = ExpectedSends(i)

\* a call that sent all three payloads and started its pumps
C1_Witness == \E i \in Calls : PumpsStarted(i) /\ Len(InitSends(i)) = 3

\* C2: accept() is called on the user port only by a call that holds the
\* handshake it received from upstream; what the call forwards to the user is
\* that handshake, unchanged; the first message the user gets is a forwarded
\* handshake; and no call sends to upstream before it forwarded its handshake.
C2_HandshakeFirst ==
    /\ [][user_accepts' # user_accepts =>
            \E i \in Calls : /\ ipc[i] = "accept"
                             /\ ipc'[i] = "forward"
                             /\ ihs[i] = UpMsg(iclient[i], up_recv[iclient[i]])]_vars
    /\ [](\A k \in DOMAIN user_sent :
            user_sent[k].by[1] = "initialize" =>
                /\ NotRaised(user_sent[k].by[2]) =>
                       user_sent[k].msg = ihs[user_sent[k].by[2]]
                /\ user_sent[k].msg.type = "upstream")
    /\ [](user_sent # <<>> => user_sent[1].by[1] = "initialize")
    /\ [](\A i \in Calls :
            InitSends(i) # <<>> =>
                \E k \in DOMAIN user_sent : SentByInitialize(user_sent[k], i))
    /\ [](\A p \in Ports : up_sent[p] # <<>> => user_sent # <<>>)

\* a call accepted the user, forwarded the handshake first and went on to send
\* upstream
C2_Witness ==
    \E i \in Calls :
        /\ PumpsStarted(i)
        /\ user_accepts >= 1
        /\ SentByInitialize(user_sent[1], i)
        /\ user_sent[1].msg = ihs[i]
        /\ InitSends(i) # <<>>

\* a pump task that has started and not ended
Running(p) == ppc[p] \in {"receive", "send"}

\* C3: once the session is closed no relay pump is running: every pump that
\* has started has ended or has its cancellation pending, whether close() came
\* before initialize(), while it was suspended, or after it completed.
C3_NoPumpAfterClose == closed => \A p \in Pumps : Running(p) => pcancel[p]

\* position in user_sent of the handshake call i forwarded
HandshakeAt(i) == CHOOSE k \in DOMAIN user_sent : SentByInitialize(user_sent[k], i)
\* what the user port was sent after the handshake of call i
AfterHandshake(i) == SubSeq(user_sent, HandshakeAt(i) + 1, Len(user_sent))
\* what the user->openai pump of call i sent upstream
PumpedUpstream(i) ==
    SelectSeq(up_sent[iclient[i]], LAMBDA x : SentByPump(x, <<i, "user->openai">>))
\* the message a pump holds between its receive() and its send()
InHand(p) == IF ppc[p] = "send" THEN 1 ELSE 0

\* C4: for the call that started the pumps, the user port got the handshake
\* and then exactly upstream's later messages, each once, unchanged and in the
\* order upstream emitted them; the upstream port got, after everything
\* initialize() sent, exactly the user's messages, each once, unchanged and in
\* order; while a pump runs nothing it received is missing but the one message
\* it holds, and a pump that ended lost at most that one.
C4_RelayFifo ==
    \A i \in Calls :
        PumpsStarted(i) =>
            LET down == <<i, "openai->user">>
                up == <<i, "user->openai">>
                c == iclient[i]
                got == AfterHandshake(i)
                sent == PumpedUpstream(i)
            IN /\ user_sent[HandshakeAt(i)].msg = ihs[i]
               /\ \A k \in DOMAIN got :
                     /\ SentByPump(got[k], down)
                     /\ got[k].msg = UpMsg(c, ihs[i].n + k)
               /\ Running(down) => Len(got) + InHand(down) = up_recv[c] - ihs[i].n
               /\ Len(got) \in {up_recv[c] - ihs[i].n - 1, up_recv[c] - ihs[i].n}
               /\ \A k \in DOMAIN sent : sent[k].msg = UserMsg(k)
               /\ Running(up) => Len(sent) + InHand(up) = user_recv
               /\ Len(sent) \in {user_recv - 1, user_recv}
               /\ SubSeq(up_sent[c], Len(up_sent[c]) - Len(sent) + 1, Len(up_sent[c])) = sent

\* two messages went each way after the handshake
C4_Witness ==
    \E i \in Calls :
        /\ PumpsStarted(i)
        /\ Len(AfterHandshake(i)) >= 2
        /\ Len(PumpedUpstream(i)) >= 2

\* C5: an initialize() call that ended with the handshake timeout left the
\* session closed, with close() called on the user port and on the upstream
\* port.
C5_TimeoutCloses ==
    \A i \in Calls :
        ires[i] = "SessionError: handshake timeout" =>
            /\ closed
            /\ user_close >= 1
            /\ openai_client # 0 => up_close[openai_client] >= 1

\* C6: an initialize() call made on an initialized session ends at once and
\* successfully, without calling the connector, receiving from or sending to
\* either port, accepting the user or starting a pump.
C6_SecondInitializeNoop ==
    [][\A i \in Calls :
          (initialized /\ ipc[i] = "idle" /\ ipc'[i] # "idle") =>
              /\ ipc'[i] = "done"
              /\ ires'[i] = "ok"
              /\ UNCHANGED <<openai_client, transport_tasks, upVars, userVars, pumpVars>>]_vars

\* a first call started the pumps and a second call returned without a
\* handshake of its own
C6_Witness ==
    \E i, j \in Calls :
        /\ i # j
        /\ PumpsStarted(i)
        /\ ires[i] = "ok"
        /\ ires[j] = "ok"
        /\ ihs[j] = None

\* C10: transport_error, once set, never changes; a pump that returns after a
\* port error leaves the session closed with transport_error set, to its own
\* error when none was recorded before; and transport_error is only ever set
\* on a closed session.
C10_FirstTransportError ==
    /\ [][transport_error # None => transport_error' = transport_error]_vars
    /\ [][\A p \in Pumps :
            (Running(p) /\ ppc'[p] = "returned") =>
                /\ closed'
                /\ transport_error' # None
                /\ transport_error = None =>
                      transport_error' =
                          PortError(p, (IF pcancel[p] THEN "cancelled " ELSE "") \o ppc[p])]_vars
    /\ [](transport_error # None => closed)

\* both pumps of a call returned after an error, and one error is recorded
C10_Witness ==
    \E i \in Calls :
        /\ \A d \in Dirs : ppc[<<i, d>>] = "returned"
        /\ transport_error # None

\* everything but the count of close() calls
sessionVars == <<sessVars, busVars, initVars, upVars, userVars, pumpVars, auxVars>>

\* C7: close() on a closed session changes nothing, so close(); close()
\* leaves what a single close() leaves; over any number of close() calls and
\* pump failures close() is scheduled at most once on each port; and a waiter
\* is failed only while pending, by the one close() that closes the session,
\* and stays failed.
C7_CloseIdempotent ==
    /\ [][(closed /\ close_calls' # close_calls) => UNCHANGED sessionVars]_vars
    /\ [](user_close <= 1 /\ \A p \in Ports : up_close[p] <= 1)
    /\ [][\A w \in Waiters :
            (wfut[w] # "SessionClosedError" /\ wfut'[w] = "SessionClosedError") =>
                wfut[w] = "pending" /\ ~closed /\ closed']_vars
    /\ [][\A w \in Waiters :
            wfut[w] = "SessionClosedError" => wfut'[w] = "SessionClosedError"]_vars

\* a pump failure closed an active session with a pending waiter, and close()
\* was called twice
C7_Witness ==
    /\ close_calls >= 2
    /\ transport_error # None
    /\ user_close = 1
    /\ \E p \in Ports : up_close[p] = 1
    /\ \E w \in Waiters : wfut[w] = "SessionClosedError"

\* a call of on, once, emit, wait_for or of a state write
ApiCall ==
    \/ \E once \in BOOLEAN : Register("tick", "f", once, 0)
    \/ \E w \in Waiters, predicate \in {"None", "predicate"} : WaitFor(w, "tick", predicate)
    \/ \E j \in Emits : EmitStart(j, "tick")
    \/ \E v \in Values : SetItem("a", v)
    \/ DelItem("a")
    \/ \E v \in Values : SetDefault("a", v)
    \/ \E m \in UpdateArgs : Update(m)

\* C8: on a closed session no step changes the state mapping, the handler
\* registry or the waiter registry, and every call of on, once, emit,
\* wait_for, session[key] = v, del session[key], setdefault and update ends
\* with SessionClosedError (no step that ends otherwise is such a call): an
\* emit() started then raises it and a wait_for() started then raises it
\* without creating a future.
C8_ClosedRejects ==
    /\ [][closed => UNCHANGED <<state, handlers, waiters>>]_vars
    /\ [][(closed /\ last_call' # "SessionClosedError") => ~ApiCall]_vars
    /\ [][closed => \A j \in Emits :
            (emits[j].pc = "idle" /\ emits'[j].pc # "idle") =>
                emits'[j].pc = "done" /\ emits'[j].outcome = "SessionClosedError"]_vars
    /\ [][closed => \A w \in Waiters :
            (wfut[w] = "idle" /\ wres[w] = "none" /\ (wfut'[w] # "idle" \/ wres'[w] # "none")) =>
                wfut'[w] = "idle" /\ wres'[w] = "SessionClosedError"]_vars

\* a closed session that kept its state has rejected an emit() and a
\* wait_for()
C8_Witness ==
    /\ closed
    /\ state # EmptyDict
    /\ last_call = "SessionClosedError"
    /\ \E j \in Emits : emits[j].outcome = "SessionClosedError"
    /\ \E w \in Waiters : wres[w] = "SessionClosedError"

\* C9: the step that closes the session, taken by close() or by a failing
\* pump, fails every pending wait_for with SessionClosedError; on a closed
\* session both registries are empty and no future is pending; no future ever
\* holds anything but a result, a cancellation or SessionClosedError; and the
\* caller of a wait_for failed this way gets SessionClosedError.
C9_CloseFailsWaiters ==
    /\ [][(~closed /\ closed') =>
            \A w \in Waiters : wfut[w] = "pending" => wfut'[w] = "SessionClosedError"]_vars
    /\ [](closed => /\ DOMAIN handlers = {}
                    /\ DOMAIN waiters = {}
                    /\ \A w \in Waiters : wfut[w] # "pending")
    /\ [](\A w \in Waiters :
            /\ wfut[w] \in {"idle", "pending", "result", "cancelled", "SessionClosedError"}
            /\ (wfut[w] = "SessionClosedError" /\ wres[w] # "none") =>
                   wres[w] = "SessionClosedError")

\* a pump failure closed the session while a wait_for was pending, and its
\* caller got SessionClosedError
C9_Witness ==
    /\ closed
    /\ transport_error # None
    /\ \E w \in Waiters : wfut[w] = "SessionClosedError" /\ wres[w] = "SessionClosedError"

\* C11: as long as no pump has returned after a port error, transport_error
\* is unset, whatever close() cancelled: in particular after close() and
\* after both pump tasks ended cancelled.
C11_CancelSetsNoError ==
    (\A p \in Pumps : ppc[p] # "returned") => transport_error = None

\* close() cancelled both pumps of a call and both have ended
C11_Witness ==
    /\ closed
    /\ transport_error = None
    /\ \E i \in Calls : \A d \in Dirs : ppc[<<i, d>>] = "cancelled"

\* C12: a graceful close signalled by receive() on the upstream port is never
\* what transport_error holds.
C12_ClosedOkNotRecorded == transport_error # ConnectionClosedOK

\* the list without its element at position p
Without(seq, p) == SubSeq(seq, 1, p - 1) \o SubSeq(seq, p + 1, Len(seq))

\* the handlers of event e in the registry reg
HandlersOf(reg, e) == IF e \in DOMAIN reg THEN reg[e] ELSE <<>>

\* a step in which a registration was added to the registry
Registering == Len(tokens') = Len(tokens) + 1

\* the new record sits after every record of its priority or higher and
\* before every lower one, and the older records keep their order
StableInsert(old, new) ==
    \E p \in DOMAIN new :
        /\ Without(new, p) = old
        /\ \A q \in 1 .. p - 1 : new[q].priority >= new[p].priority
        /\ \A q \in p + 1 .. Len(new) : new[q].priority < new[p].priority

\* emit j ran exactly its next handler in this step and filed its callback
\* under the results or under the errors, after those already collected
RanNext(j) ==
    LET em == emits[j]
        cb == em.handlers[em.next].callback
    IN /\ \/ emits'[j].pc = "dispatch" /\ emits'[j].next = em.next + 1
          \/ emits'[j].pc = "done" /\ em.next = Len(em.handlers)
       /\ \/ /\ emits'[j].results = Append(em.results, cb)
             /\ emits'[j].errors = em.errors
          \/ /\ emits'[j].results = em.results
             /\ Len(emits'[j].errors) = Len(em.errors) + 1
             /\ SubSeq(emits'[j].errors, 1, Len(em.errors)) = em.errors
             /\ emits'[j].errors[Len(em.errors) + 1].callback = cb

\* C13: the registry of an event is kept in descending priority with equal
\* priorities in registration order; an emit takes the handlers in that order,
\* runs them one per step from the first to the last, and collects the result
\* of each successful one after those collected before.
C13_DispatchOrder ==
    /\ [](\A e \in DOMAIN handlers : \A a, b \in DOMAIN handlers[e] :
             a < b => handlers[e][a].priority >= handlers[e][b].priority)
    /\ [][Registering =>
             StableInsert(HandlersOf(handlers, tokens'[Len(tokens')].event),
                          HandlersOf(handlers', tokens'[Len(tokens')].event))]_vars
    /\ [][\A j \in BusEmits :
             /\ (emits[j].pc = "idle" /\ emits'[j].pc = "dispatch")
                   => /\ emits'[j].handlers = HandlersOf(handlers, emits'[j].event)
                      /\ emits'[j].next = 1
                      /\ emits'[j].results = <<>>
             /\ (emits[j].pc = "dispatch" /\ emits'[j] # emits[j]) => RanNext(j)
             /\ (emits[j].pc = "done") => emits'[j] = emits[j]]_vars

\* a handler registered later with a higher priority ran first, and both
\* results were collected in that order
C13_Witness ==
    /\ Len(tokens) = 2
    /\ tokens[1].callback = "f"
    /\ \E j \in BusEmits : emits[j].pc = "done" /\ emits[j].results = <<"g", "f">>

\* an EventHandlerError of emit record em: its event, a callback and what that
\* callback raised
IsHandlerErrorOf(em, x) ==
    /\ DOMAIN x = {"event", "callback", "original"}
    /\ x.event = em.event
    /\ x.original = <<"raised by", x.callback>>

\* C14: while an emit dispatches, every handler before the next one has
\* either given a result or an EventHandlerError of this emit, whatever the
\* earlier ones did; the emit ends only after its last handler, with one
\* result or error per handler; it raises the aggregate holding exactly the
\* collected errors when there is one, and returns only when there is none.
C14_FailuresAggregated ==
    /\ [](\A j \in BusEmits :
             /\ emits[j].pc = "dispatch"
                   => Len(emits[j].results) + Len(emits[j].errors) = emits[j].next - 1
             /\ \A k \in DOMAIN emits[j].errors : IsHandlerErrorOf(emits[j], emits[j].errors[k])
             /\ emits[j].pc = "done"
                   => /\ emits[j].value.type = "return" <=> emits[j].errors = <<>>
                      /\ emits[j].value.type = "ExceptionGroup" <=> emits[j].errors # <<>>
                      /\ emits[j].errors # <<>> => emits[j].value.exceptions = emits[j].errors)
    /\ [][\A j \in BusEmits :
             (emits[j].pc = "dispatch" /\ emits'[j].pc = "done")
                => Len(emits'[j].results) + Len(emits'[j].errors) = Len(emits[j].handlers)]_vars

\* an emit of two handlers ended with the result of one and the error of the
\* other
C14_Witness ==
    \E j \in BusEmits :
        /\ emits[j].pc = "done"
        /\ emits[j].value.type = "ExceptionGroup"
        /\ Len(emits[j].results) = 1
        /\ Len(emits[j].value.exceptions) = 1

\* C15: an emit that raised the aggregate after some handlers succeeded gave
\* its caller, with the aggregate, the results of those handlers.
C15_ResultsInAggregate ==
    \A j \in BusEmits :
        (emits[j].pc = "done" /\ emits[j].value.type = "ExceptionGroup"
                              /\ emits[j].results # <<>>)
           => /\ "results" \in DOMAIN emits[j].value
              /\ emits[j].value.results = emits[j].results

\* the emit() calls that have ended
DoneEmits == {j \in BusEmits : emits[j].pc = "done"}

\* how many times the emits invoked callback cb, successfully or not
Fired(cb) ==
    Cardinality({x \in BusEmits \X (1 .. MaxTokens) :
                    /\ x[2] \in DOMAIN emits[x[1]].results
                    /\ emits[x[1]].results[x[2]] = cb})
    + Cardinality({x \in BusEmits \X (1 .. MaxTokens) :
                    /\ x[2] \in DOMAIN emits[x[1]].errors
                    /\ emits[x[1]].errors[x[2]].callback = cb})

\* the registrations of callback cb made with on() or with once()
RegisteredBy(cb, method) ==
    {k \in DOMAIN tokens : tokens[k].callback = cb /\ tokens[k].by = method}

\* C16: after registrations followed by n >= 1 emits made one after the other,
\* every callback was invoked n times for each of its on() registrations and
\* once for each of its once() registrations.
C16_FireCounts ==
    (NoEmitInFlight /\ DoneEmits # {})
       => \A cb \in Callbacks :
             Fired(cb) = Cardinality(RegisteredBy(cb, "on")) * Cardinality(DoneEmits)
                         + Cardinality(RegisteredBy(cb, "once"))

\* the waiter record of future w, while the registry holds it
WaiterOf(w) ==
    LET list == waiters[wevent[w]]
    IN list[CHOOSE k \in DOMAIN list : list[k].future = w]

\* the future of wait_for call w is pending, so its waiter is registered
Waiting(w) == wfut[w] = "pending"

\* emit j creates its Event and notifies the waiters in this step
Emission(j) ==
    /\ emits[j].pc # "done"
    /\ emits'[j].pc = "done"
    /\ emits'[j].value.type \in {"return", "ExceptionGroup"}

\* the emission of emit j is one that waiter w waits for: its event, and its
\* predicate, if it has one, returns true
Matches(j, w) ==
    /\ emits'[j].event = wevent[w]
    /\ WaiterOf(w).predicate = "None" \/ w \in emits'[j].accepts

\* C17: a pending waiter is resolved by a step exactly when the step is an
\* emission of its event for which its predicate, if any, returns true, and
\* it is that emission's Event it gets; hence the first such emission
\* resolves it and every other emission leaves it pending. No waiter is
\* resolved by two emissions.
C17_WaiterResolution ==
    /\ [][\A w \in Waiters : Waiting(w) =>
             /\ (\E j \in BusEmits : Emission(j) /\ Matches(j, w))
                   <=> wfut'[w] = "result"
             /\ \A j \in BusEmits :
                   Emission(j) => (w \in emits'[j].resolved <=> Matches(j, w))
             /\ (\A j \in BusEmits : ~(Emission(j) /\ Matches(j, w)))
                   => (closed' # closed \/ wfut'[w] \in {"pending", "cancelled"})]_vars
    /\ [](\A w \in Waiters : \A j, k \in BusEmits :
             (w \in emits[j].resolved /\ w \in emits[k].resolved) => j = k)

\* a waiter stayed pending through an emission of its event that its
\* predicate refused and was resolved by the next one
C17_Witness ==
    \E w \in Waiters : \E j, k \in BusEmits :
        /\ w \in emits[j].asked \ emits[j].accepts
        /\ w \in emits[k].resolved
        /\ emits[j].event = emits[k].event
        /\ wres[w] = "Event"

\* the futures of the waiters the registry holds
RegisteredWaiters ==
    UNION {{waiters[e][k].future : k \in DOMAIN waiters[e]} : e \in DOMAIN waiters}

\* C18: once a wait_for call has ended, whatever ended it, the waiter
\* registry does not hold its waiter; and neither registry has an event key
\* with an empty list.
C18_RegistriesPruned ==
    /\ \A w \in Waiters : wres[w] # "none" => w \notin RegisteredWaiters
    /\ \A e \in DOMAIN waiters : waiters[e] # <<>>
    /\ \A e \in DOMAIN handlers : handlers[e] # <<>>

\* a wait_for call timed out and a once handler fired, and both registries
\* are empty again on the open session
C18_Witness ==
    /\ ~closed
    /\ \E w \in Waiters : wres[w] = "TimeoutError"
    /\ \E j \in Emits : emits[j].pc = "done" /\ emits[j].results # <<>>
    /\ DOMAIN waiters = {}
    /\ DOMAIN handlers = {}

\* C19: a token whose cancel() has returned is not active.
C19_CancelledInactive ==
    \A k \in DOMAIN tokens : tokens[k].cancels > 0 => ~tokens[k].active

\* C20: what a session.update message that has been sent carries for the
\* state is what it carried when it was sent, whatever was done to the state
\* of the session since, nested values included.
C20_SnapshotFrozen ==
    \A k \in DOMAIN snapshots :
        snapshots[k].sent # None
           => Contents(snapshots[k].session, nested) = snapshots[k].sent

\* ------------------------------------------- properties of the questionnaire
\* the ids of the sections, in insertion order
Ids(sections) == [k \in DOMAIN sections |-> sections[k].section_id]

\* the sections a condition refers to with the given operator
RECURSIVE Refs(_, _)
Refs(condition, operator) ==
    CASE condition.operator \in {"AND", "OR"} ->
            UNION {Refs(condition.conditions[k], operator) : k \in DOMAIN condition.conditions}
      [] condition.operator = "NOT" -> Refs(condition.condition, operator)
      [] condition.operator = operator -> {condition.section_id}
      [] OTHER -> {}

\* the sections whose visibility the visibility of the section depends on
\* directly
DependsOn(sections, section_id) ==
    LET k == SectionIndex(sections, section_id)
    IN IF k = 0 THEN {} ELSE Refs(sections[k].condition, "VISIBLE")

\* the sections reached from the given ones along at most n VISIBLE references
RECURSIVE ReachedFrom(_, _, _)
ReachedFrom(sections, from, n) ==
    LET next == UNION {DependsOn(sections, s) : s \in from}
    IN IF n = 1 THEN next ELSE next \cup ReachedFrom(sections, next, n - 1)

\* the section lies on a cycle of VISIBLE references
OnCycle(sections, section_id) ==
    sections # <<>> /\ section_id \in ReachedFrom(sections, {section_id}, Len(sections))

\* every condition names sections that exist
RefsExist(sections) ==
    \A k \in DOMAIN sections :
        Refs(sections[k].condition, "VISIBLE") \cup Refs(sections[k].condition, "COMPLETED")
            \subseteq Range(Ids(sections))

\* the section has a question and none of its questions is left open
Completed(section) ==
    /\ Len(section.questions) >= 1
    /\ ~\E k \in DOMAIN section.questions :
           ~section.questions[k].skipped /\ section.questions[k].value = "None"

\* the meaning of a condition, and of the visibility of a section, for
\* conditions without cycle
RECURSIVE Holds(_, _)
RECURSIVE Visible(_, _)
Holds(sections, condition) ==
    CASE condition.operator = "AND" ->
            \A k \in DOMAIN condition.conditions : Holds(sections, condition.conditions[k])
      [] condition.operator = "OR" ->
            \E k \in DOMAIN condition.conditions : Holds(sections, condition.conditions[k])
      [] condition.operator = "NOT" -> ~Holds(sections, condition.condition)
      [] condition.operator = "VISIBLE" -> Visible(sections, condition.section_id)
      [] condition.operator = "COMPLETED" ->
            Completed(sections[SectionIndex(sections, condition.section_id)])
      [] condition.operator = "ALWAYS" -> condition.value

Visible(sections, section_id) ==
    LET condition == sections[SectionIndex(sections, section_id)].condition
    IN condition = NoCondition \/ Holds(sections, condition)

\* C21: when the conditions name existing sections and form no cycle, the
\* call returns the ids of exactly the sections without condition or whose
\* condition holds for the answers of the moment, in insertion order.
C21_VisibleSections ==
    (/\ qout.op = "get_visible_sections"
     /\ RefsExist(qnaire.sections)
     /\ \A s \in SectionIds : ~OnCycle(qnaire.sections, s))
       => /\ qout.raised = "none"
          /\ qout.visible = SelectSeq(Ids(qnaire.sections),
                                      LAMBDA s : Visible(qnaire.sections, s))

\* section 2 with AND(COMPLETED 1, VISIBLE 1) is returned after section 1 once
\* the question of section 1 is answered
C21_Witness ==
    /\ qout.op = "get_visible_sections"
    /\ Len(qnaire.sections) = 2
    /\ qnaire.sections[2].condition =
          [operator |-> "AND",
           conditions |-> <<[operator |-> "COMPLETED", section_id |-> "1"],
                            [operator |-> "VISIBLE", section_id |-> "1"]>>]
    /\ qnaire.sections[1].section_id = "1"
    /\ Len(qnaire.sections[1].questions) = 1
    /\ qnaire.sections[1].questions[1].value = "Yes"
    /\ qout.visible = <<"1", "2">>

\* C22: every section on a cycle of VISIBLE references, also one through NOT,
\* AND or OR, is left out of the result, whatever the insertion order.
C22_CycleExcluded ==
    qout.op = "get_visible_sections" /\ qout.raised = "none"
       => \A s \in SectionIds :
             OnCycle(qnaire.sections, s) => s \notin Range(qout.visible)

\* C23: the call returns a list and raises nothing whenever the conditions name
\* existing sections, cycles of VISIBLE references included.
C23_Terminates ==
    qout.op = "get_visible_sections" /\ RefsExist(qnaire.sections)
       => qout.raised = "none"

\* a list was returned although both sections refer to each other
C23_Witness ==
    /\ qout.op = "get_visible_sections"
    /\ Len(qnaire.sections) = 2
    /\ OnCycle(qnaire.sections, "1")
    /\ OnCycle(qnaire.sections, "2")
    /\ qnaire.sections[1].condition.operator = "VISIBLE"
    /\ qnaire.sections[2].condition.operator = "VISIBLE"
    /\ qout.raised = "none"
    /\ qout.visible = <<>>

\* the question the last call named, in the given sections; called only where
\* it exists
Asked(sections) ==
    LET section == sections[SectionIndex(sections, qout.section_id)]
    IN section.questions[QuestionIndex(section.questions, qout.question_id)]

\* the last call named a question that exists
AskedExists(sections) ==
    /\ SectionIndex(sections, qout.section_id) # 0
    /\ QuestionIndex(sections[SectionIndex(sections, qout.section_id)].questions,
                     qout.question_id) # 0

\* the options the answer v stands for: equal to it, or equal to it ignoring
\* case when v is a string
Matching(options, v) ==
    {o \in Range(options) : o = v \/ (v \in Strings /\ casefold(o) = casefold(v))}

\* C24: on a question with options, set_value(v) succeeds exactly when an
\* option matches v ignoring case or equals it; it then stores that option in
\* its original casing, and otherwise raises ValueError and leaves value and
\* skipped as they were.
C24_SetValueStep ==
    (/\ qout'.op = "set_answer"
     /\ SectionIndex(qnaire.sections, qout'.section_id) # 0
     /\ QuestionIndex(qnaire.sections[SectionIndex(qnaire.sections, qout'.section_id)].questions,
                      qout'.question_id) # 0)
       => LET section == qnaire.sections[SectionIndex(qnaire.sections, qout'.section_id)]
              n == QuestionIndex(section.questions, qout'.question_id)
              was == section.questions[n]
              is == qnaire'.sections[SectionIndex(qnaire.sections, qout'.section_id)].questions[n]
          IN was.question_options # <<>>
                => /\ (qout'.raised = "none") = (Matching(was.question_options, qout'.value) # {})
                   /\ qout'.raised = "none"
                         => /\ is.value \in Matching(was.question_options, qout'.value)
                            /\ ~is.skipped
                   /\ qout'.raised # "none"
                         => /\ qout'.raised = "ValueError"
                            /\ is = was

C24_CanonicalOption == [][C24_SetValueStep]_vars

\* the answer "YES" was stored as the option "Yes"
C24_Witness ==
    /\ qout.op = "set_answer"
    /\ qout.value = "YES"
    /\ qout.raised = "none"
    /\ AskedExists(qnaire.sections)
    /\ Asked(qnaire.sections).question_options = <<"Yes", "No">>
    /\ Asked(qnaire.sections).value = "Yes"

\* C25: a question can be created with spelling_sensitive = true, directly or
\* through Questionnaire.add_question, and then takes its answers as sequences
\* of characters.
C25_SpellingSensitive ==
    (/\ qout.op \in {"QuestionnaireQuestion", "add_question"}
     /\ "spelling_sensitive" \in DOMAIN qout.kwargs
     /\ qout.kwargs.spelling_sensitive
     /\ qout.kwargs.question_options # <<"Yes", "YES">>)
       => qout.raised # "TypeError"

\* the questions of the section, one by one, that are still open
Open(section) ==
    {k \in DOMAIN section.questions :
        ~section.questions[k].skipped /\ section.questions[k].value = "None"}

\* C26: is_completed() is true exactly when the section has a question and
\* every question that is not skipped has a value.
C26_Completed ==
    qout.op = "is_completed"
       => LET section == qnaire.sections[SectionIndex(qnaire.sections, qout.section_id)]
          IN qout.result = (Len(section.questions) >= 1 /\ Open(section) = {})

\* a section of two questions, one skipped and one answered, is completed
C26_Witness ==
    /\ qout.op = "is_completed"
    /\ qout.result
    /\ Len(qnaire.sections[1].questions) = 2
    /\ \E a, b \in 1..2 :
          /\ qnaire.sections[1].questions[a].skipped
          /\ qnaire.sections[1].questions[b].value # "None"

\* a section whose questions are all skipped is completed
C26_WitnessAllSkipped ==
    /\ qout.op = "is_completed"
    /\ qout.result
    /\ Len(qnaire.sections[1].questions) = 2
    /\ \A k \in 1..2 : qnaire.sections[1].questions[k].skipped

\* no question that cannot be skipped is skipped
NoneSkippedUnskippable(sections) ==
    \A k \in DOMAIN sections : \A n \in DOMAIN sections[k].questions :
        ~sections[k].questions[n].skippable => ~sections[k].questions[n].skipped

\* C27: a question with skippable = false is never skipped: constructing it
\* with skipped = true raises, and skip_question on it raises ValueError and
\* leaves the question as it was.
C27_Step ==
    /\ NoneSkippedUnskippable(qnaire'.sections)
    /\ (/\ qout'.op \in {"QuestionnaireQuestion", "add_question"}
        /\ "skipped" \in DOMAIN qout'.kwargs
        /\ qout'.kwargs.skipped /\ ~qout'.kwargs.skippable)
          => qout'.raised # "none" /\ qnaire' = qnaire
    /\ (/\ qout'.op = "skip_question"
        /\ SectionIndex(qnaire.sections, qout'.section_id) # 0
        /\ QuestionIndex(qnaire.sections[SectionIndex(qnaire.sections, qout'.section_id)].questions,
                         qout'.question_id) # 0)
          => LET section == qnaire.sections[SectionIndex(qnaire.sections, qout'.section_id)]
                 was == section.questions[QuestionIndex(section.questions, qout'.question_id)]
             IN ~was.skippable => qout'.raised = "ValueError" /\ qnaire' = qnaire

C27_UnskippableNeverSkipped == [][C27_Step]_vars

\* skip_question failed on an answered question that cannot be skipped
C27_Witness ==
    /\ qout.op = "skip_question"
    /\ qout.raised = "ValueError"
    /\ AskedExists(qnaire.sections)
    /\ ~Asked(qnaire.sections).skippable
    /\ Asked(qnaire.sections).value = "maybe"

\* what render gives without a template, by the rules for schema, sections and
\* fallback prompt
Untemplated(questionnaire, state_snapshot) ==
    IF questionnaire.schema # None
    THEN Str(dumps(questionnaire.schema))
    ELSE IF questionnaire.sections # <<>>
    THEN Str(<<"{", "sections", ":", "[">> \o SectionMappings(questionnaire.sections)
                \o <<"]", "}">>)
    ELSE IF ~IsBlankStr(questionnaire.fallback_prompt)
    THEN Str(strip(questionnaire.fallback_prompt.text)
                \o <<" Agent: ", Get(state_snapshot, "agent_name", "our team"),
                     ", Branch: ", Get(state_snapshot, "branch_name", "our branch"), ".">>)
    ELSE None

\* what render gives for a template that is not blank: the trimmed rendering,
\* null if it is empty
Templated(questionnaire, state_snapshot) ==
    IF strip(Template_render(questionnaire.template.text, state_snapshot)) = <<>> THEN None
    ELSE Str(strip(Template_render(questionnaire.template.text, state_snapshot)))

\* C28 as claimed: render follows the first rule that applies, and a blank
\* template falls through to the schema, sections and fallback rules.
C28_BlankFallsThrough ==
    qout.op = "render"
       => qout.result = IF qnaire.template # None /\ ~IsBlankStr(qnaire.template)
                        THEN Templated(qnaire, qout.state)
                        ELSE Untemplated(qnaire, qout.state)

\* C28 as amended: render follows the first rule that applies, where a blank
\* template string gives null and only an absent template falls through.
C28_BlankIsNull ==
    qout.op = "render"
       => qout.result = IF qnaire.template = None THEN Untemplated(qnaire, qout.state)
                        ELSE IF IsBlankStr(qnaire.template) THEN None
                        ELSE Templated(qnaire, qout.state)

\* a questionnaire with a blank template and a schema was rendered to null
C28_Witness ==
    /\ qout.op = "render"
    /\ qnaire.template = Str(<<" ", " ">>)
    /\ qnaire.schema # None
    /\ qout.result = None

\* a questionnaire without template was rendered to its schema, keys sorted
C28_WitnessSchema ==
    /\ qout.op = "render"
    /\ qnaire.template = None
    /\ qout.result = Str(<<"{", "a", ":", "1", ",", "b", ":", "2", "}">>)

\* C29: with a blank agent.initial_message_template no content element with a
\* <system>...</system> text is sent.
C29_BlankNoSystemPrompt ==
    qout.op = "_send_initial_prompt" /\ IsBlankStr(agent.config.initial_message_template)
       => \A k \in DOMAIN qout.content : Head(qout.content[k].text) # "<system>"

\* the questionnaire element sent is the trimmed rendering of this template
SentFrom(template) ==
    LET text == strip(Template_render(template.text, agent.state))
    IN IF text = <<>>
       THEN \A k \in DOMAIN qout.content : Head(qout.content[k].text) # "<questionnaire>"
       ELSE \E k \in DOMAIN qout.content :
               qout.content[k].text = <<"<questionnaire>">> \o text \o <<"</questionnaire>">>

\* C30: for an agent of type questionnaire, with questionnaire_template and
\* questionnaire both strings the session is constructed and the questionnaire
\* sent is rendered from questionnaire_template; with only questionnaire a
\* string, it is rendered from questionnaire.
C30_TemplatePrecedence ==
    (/\ agent.pc # "new"
     /\ agent.config.type = "questionnaire"
     /\ agent.config.questionnaire.type = "str")
       => /\ NotBlank(agent.config.questionnaire_template)
             => /\ agent.raised = "none"
                /\ qout.op = "_send_initial_prompt"
                      => SentFrom(agent.config.questionnaire_template)
          /\ agent.config.questionnaire_template = None
             => /\ agent.raised = "none"
                /\ qout.op = "_send_initial_prompt" => SentFrom(agent.config.questionnaire)

\* C39: a skipped question has no value: skip_question clears the value, and
\* set_answer and clear_question clear the skipped flag.
C39_SkippedHasNoValue ==
    \A k \in DOMAIN qnaire.sections : \A n \in DOMAIN qnaire.sections[k].questions :
        qnaire.sections[k].questions[n].skipped
           => qnaire.sections[k].questions[n].value = "None"

\* skip_question succeeded on a question with options and left it skipped
\* and without value
C39_Witness ==
    /\ qout.op = "skip_question"
    /\ qout.raised = "none"
    /\ AskedExists(qnaire.sections)
    /\ Asked(qnaire.sections).skipped
    /\ Asked(qnaire.sections).value = "None"
    /\ Asked(qnaire.sections).question_options = <<"Yes", "No">>

\* C40: a condition naming a section that does not exist is accepted by
\* add_section, and get_visible_sections then raises ValueError for as long as
\* the section is missing.
C40_DanglingReferenceRaises ==
    /\ qout.op = "add_section" => qout.raised = "none"
    /\ (qout.op = "get_visible_sections" /\ ~RefsExist(qnaire.sections))
          => qout.raised = "ValueError"

\* the call failed for a section that refers to section 2 before it exists
C40_Witness ==
    /\ qout.op = "get_visible_sections"
    /\ qout.raised = "ValueError"
    /\ Len(qnaire.sections) = 1
    /\ qnaire.sections[1].section_id = "1"
    /\ "2" \in Refs(qnaire.sections[1].condition, "VISIBLE")
                  \cup Refs(qnaire.sections[1].condition, "COMPLETED")

\* C31: render_questionnaire(state) returns what an uncached rendering of the
\* state returns, whatever was built or rendered before.
C31_CacheTransparent ==
    qout.op = "render_questionnaire"
       => qout.result = generate_questionnaire(agent.scaffolding, qout.state).value

\* the messages of one type that initialize() calls sent upstream, over all
\* ports
InitializeSent(type) ==
    {<<c, k>> \in Ports \X (1 .. 3 * MaxCalls) :
        /\ k <= Len(up_sent[c])
        /\ up_sent[c][k].by[1] = "initialize"
        /\ up_sent[c][k].msg.type = type}

\* C32: however initialize() calls of one session overlap, the connector is
\* called at most once, at most one upstream message is consumed as the
\* handshake, each of session.update, conversation.item.create and
\* response.create is sent at most once, and at most one pump per direction
\* is started.
C32_OverlapInitializesOnce ==
    /\ connect_calls <= 1
    /\ Cardinality({i \in Calls : ihs[i] # None}) <= 1
    /\ \A type \in {"session.update", "conversation.item.create", "response.create"} :
          Cardinality(InitializeSent(type)) <= 1
    /\ \A d \in Dirs : Cardinality({p \in Pumps : p[2] = d /\ ppc[p] # "none"}) <= 1

\* the session obtained upstream port c from the connector
Obtained(c) == openai_client = c

\* an initialize() call was left by an exception and no later call completed
Abandoned == ~initialized /\ \E i \in Calls : ~NotRaised(i)

\* C33: no upstream port obtained from the connector is left open once no
\* initialize() call is running any more and the session is closed or its
\* initialization was abandoned (handshake timeout, or an error of the user
\* accept, the user send or an upstream send), also when close() ran before
\* the connector returned: close() was called on that port.
C33_NoPortLeftOpen ==
    \A c \in Ports :
        (Obtained(c) /\ NoCallInFlight /\ (closed \/ Abandoned)) => up_close[c] >= 1

\* C34: a callback registered only with once() is invoked at most once for
\* each of its registrations, also when emits of the event overlap: an emit
\* that takes its snapshot while another is suspended awaiting a handler does
\* not invoke the once handler again.
C34_OnceFiresOnceOverlapping ==
    \A cb \in Callbacks :
        RegisteredBy(cb, "on") = {}
           => Fired(cb) <= Cardinality(RegisteredBy(cb, "once"))

\* the registrations of callback cb for event e that the registry holds and
\* that were made with on()
Persistent(e, cb) ==
    IF e \notin DOMAIN handlers
    THEN 0
    ELSE Len(SelectSeq(handlers[e], LAMBDA r : r.callback = cb /\ ~r.once))

\* C35: with no off(), cancel() or close(), the removal of the once handlers
\* that fired leaves every on() registration of the event in the registry,
\* also one made with the callback of a once handler, so that the next emit
\* takes it into its snapshot.
C35_PersistentSurvivesOnce ==
    \A cb \in Callbacks : Persistent("tick", cb) = Cardinality(RegisteredBy(cb, "on"))

\* the elements of a sequence at the positions in S, in their order
RECURSIVE Kept(_, _)
Kept(seq, S) ==
    IF seq = <<>>
    THEN <<>>
    ELSE LET before == Kept(SubSeq(seq, 1, Len(seq) - 1), S)
         IN IF Len(seq) \in S THEN Append(before, seq[Len(seq)]) ELSE before

\* the callbacks emit j invokes, in dispatch order
Dispatched(j) == [k \in DOMAIN emits[j].handlers |-> emits[j].handlers[k].callback]

\* the callbacks of the EventHandlerErrors of emit j, in the order collected
FailedCallbacks(j) == [k \in DOMAIN emits[j].errors |-> emits[j].errors[k].callback]

\* C36: the step in which an emit with failed handlers ends and raises the
\* aggregate has notified the waiters: every pending waiter of the event whose
\* predicate, if any, accepts is resolved with the Event of this emit; the
\* results of that Event are the results of the handlers that did not fail,
\* in dispatch order; and no once handler of the dispatch is registered any
\* more.
C36_FailedEmitNotifies ==
    [][\A j \in Emits :
          (Emission(j) /\ emits'[j].value.type = "ExceptionGroup") =>
             /\ \A w \in Waiters :
                   (Waiting(w) /\ Matches(j, w))
                      => (wfut'[w] = "result" /\ w \in emits'[j].resolved)
             /\ \E F \in SUBSET DOMAIN emits[j].handlers :
                   /\ F # {}
                   /\ emits'[j].results = Kept(Dispatched(j), DOMAIN emits[j].handlers \ F)
                   /\ FailedCallbacks(j)' = Kept(Dispatched(j), F)
             /\ \A k \in DOMAIN emits[j].handlers :
                   emits[j].handlers[k].once
                      => \/ emits[j].event \notin DOMAIN handlers'
                         \/ \A n \in DOMAIN handlers'[emits[j].event] :
                               handlers'[emits[j].event][n] # emits[j].handlers[k]]_vars

\* an emit whose once handler failed after another handler had succeeded
\* raised the aggregate, and a waiter returned with its Event
C36_Witness ==
    \E j \in Emits : \E w \in Waiters :
        /\ emits[j].pc = "done"
        /\ emits[j].value.type = "ExceptionGroup"
        /\ emits[j].results # <<>>
        /\ w \in emits[j].resolved
        /\ wres[w] = "Event"
        /\ \E k \in DOMAIN tokens :
              /\ tokens[k].by = "once"
              /\ \E n \in DOMAIN emits[j].errors : emits[j].errors[n].callback = tokens[k].callback

\* the handlers the registry holds for event e
RegisteredFor(reg, e) == IF e \in DOMAIN reg THEN reg[e] ELSE <<>>

\* how many times record r is in a list of handler records
Count(records, r) == Len(SelectSeq(records, LAMBDA x : x = r))

\* emit j starts: it takes the handlers registered at that moment
TakesSnapshot(j) ==
    (emits[j].pc = "idle" /\ emits'[j].pc = "dispatch")
       => emits'[j].handlers = RegisteredFor(handlers, emits'[j].event)

\* emit j goes through its snapshot, whatever is registered or removed
\* meanwhile: each of its steps ends the invocation of the next handler of the
\* snapshot, and it ends with the last one
FollowsSnapshot(j) ==
    emits[j].pc = "dispatch" =>
       /\ emits'[j].pc = "dispatch" => emits'[j].handlers = emits[j].handlers
       /\ emits'[j] # emits[j] =>
             /\ Len(emits'[j].results) + Len(emits'[j].errors) = emits[j].next
             /\ emits'[j].results # emits[j].results
                   => emits'[j].results =
                         Append(emits[j].results, emits[j].handlers[emits[j].next].callback)
             /\ emits'[j].pc = "done" <=> emits[j].next = Len(emits[j].handlers)
             /\ emits'[j].pc = "dispatch" => emits'[j].next = emits[j].next + 1

\* emit j ends: of the handlers registered at that moment it removes no more
\* than the once handlers of its snapshot, so that what was registered during
\* the dispatch is there for the next emit
KeepsLaterRegistrations(j) ==
    (emits[j].pc = "dispatch" /\ emits'[j].pc = "done") =>
       LET before == RegisteredFor(handlers, emits[j].event)
           after == RegisteredFor(handlers', emits[j].event)
       IN \A k \in DOMAIN before :
             Count(after, before[k]) >=
                Count(before, before[k])
                - (IF before[k].once THEN Count(emits[j].handlers, before[k]) ELSE 0)

\* C37: an emit dispatches to exactly the handlers registered for the event
\* when it started: a handler registered during the dispatch is not invoked in
\* that emit and is still registered for the next one, and a handler removed
\* during the dispatch that has not yet run is still invoked.
C37_DispatchesSnapshot ==
    [][\A j \in BusEmits :
          TakesSnapshot(j) /\ FollowsSnapshot(j) /\ KeepsLaterRegistrations(j)]_vars

\* how many handler callbacks emit j has started
Started(j) ==
    IF emits[j].pc = "dispatch"
    THEN emits[j].next
    ELSE Len(emits[j].results) + Len(emits[j].errors)

\* C38 as stated: on a closed session no step starts a handler callback, so
\* an emit that was dispatching when close() happened does not invoke the
\* handlers it has not started.
C38_NoCallbackAfterClose ==
    [][closed => \A j \in BusEmits : Started(j)' = Started(j)]_vars

\* C38, amended: on a closed session an emit() call that starts is rejected
\* with SessionClosedError and starts no handler callback, while an emit that
\* was dispatching when close() happened is not cut short: it goes on through
\* the handlers of its snapshot and ends after the last of them.
C38_ClosedRejectsNewEmits ==
    [][closed =>
          \A j \in BusEmits :
             /\ (emits[j].pc = "idle" /\ emits'[j].pc # "idle")
                   => /\ emits'[j].pc = "done"
                      /\ emits'[j].value.type = "SessionClosedError"
                      /\ Started(j)' = 0
             /\ FollowsSnapshot(j)]_vars

\* close() happened while an emit was awaiting the first of its two handlers
C38_Witness ==
    /\ closed
    /\ \E j \in BusEmits :
          /\ emits[j].pc = "dispatch"
          /\ emits[j].next = 1
          /\ Len(emits[j].handlers) = 2
====
